---- MODULE Spec2Model ----
(***************************************************************************)
(* Model of the drive-webhook worker: the KV store (drive_kv), the         *)
(* race-safe access-token retrieval of helper.ts, the Drive handlers of    *)
(* index.ts and the change fetcher.                                        *)
(*                                                                         *)
(* Values.  String-valued keys hold TLA+ strings; NULL is an absent key    *)
(* (null / undefined) and "" the empty string, both falsy in the source.   *)
(* Numeric keys (timestamps written with toString() and read back with     *)
(* Number()) hold integers: NoNum is an absent key, 0 the empty string     *)
(* (Number("") = 0), a positive n the decimal string of n.                 *)
(***************************************************************************)
EXTENDS Integers, Sequences, FiniteSets, TLC

NULL == "<null>"
NoNum == 0 - 1

Truthy(v) == v # NULL /\ v # ""
TruthyNum(n) == n # NoNum /\ n # 0

\* Number(str ?? 0) and Number(str): null and "" both convert to 0.
Number(n) == IF n = NoNum THEN 0 ELSE n

Max(a, b) == IF a >= b THEN a ELSE b

(***************************************************************************)
(* Program constants                                                       *)
(***************************************************************************)
LOCK_KEY == "accessTokenRefreshLock"
LOCK_TTL_MS == 30000
EARLY_REFRESH_MS == 60000
SLEEP_MS == 800
RENEW_THRESHOLD_MS == 60 * 60 * 1000
EXPIRATION_MS == 24 * 60 * 60 * 1000

(***************************************************************************)
(* Bounds of the model                                                     *)
(***************************************************************************)
NumCallers == 2      \* concurrent getValidAccessToken callers
InitNow == 100000    \* clock value (ms) of the initial state
MaxElapsed == 32000  \* the clock of the token manager runs from InitNow to InitNow + MaxElapsed
MaxRetries == 1      \* wait-and-retry rounds of one caller
MaxCursor == 1       \* page tokens the Drive API hands out
MaxUUIDs == 3        \* crypto.randomUUID() values drawn
MaxIssued == 1       \* access tokens the token endpoint issues to the handlers
MaxOps == 2          \* handler invocations and clock steps of one behaviour
MaxNotifications == 1   \* notifications of a run of webhook notifications alone
NumRequests == 6     \* requests of one client to one route
MaxInFlight == 2     \* requests of that client inside rateLimit at the same time
MaxTicks == 2        \* clock steps while the client sends its requests
MaxGated == 2        \* requests sent through the middleware chain one after the other
MaxRounds == 2       \* wait-and-retry rounds of a caller that contends with later calls
MaxLaterCalls == 1   \* calls made after an earlier call has resolved

Callers == 1 .. NumCallers
Requests == 1 .. NumRequests
MaxNow == InitNow + MaxElapsed

NumKeys == {"accessTokenExpiry", LOCK_KEY, "driveChannelExpiration"}
StrKeys == {"accessToken", "refreshToken", "google_client_id",
            "google_client_secret", "client_id", "client_secret", "auth_code",
            "drive_start_page_token", "google_drive_start_page_token",
            "drive_folder_id", "worker_drive_webhook_url", "driveWebhookToken",
            "driveChannelId", "driveResourceId"}
Keys == StrKeys \cup NumKeys

EmptyKV == [k \in Keys |-> IF k \in NumKeys THEN NoNum ELSE NULL]

\* the value of drive_kv.get(key, "json") when there is no entry (null);
\* a stored entry has count >= 1
NoExisting == [count |-> 0, resetAt |-> 0]

\* no entry under the rate limit key; expireAt is the clock value at which
\* KV drops the entry (expirationTtl)
NoEntry == [count |-> 0, resetAt |-> 0, expireAt |-> 0]

\* a request that has not reached the worker
NoRequest == [pc |-> "idle", now |-> NoNum, existing |-> NoExisting,
              window |-> NoNum]

VARIABLES
  drive_kv,      \* the KV namespace: key -> value
  lockExpireAt,  \* expirationTtl of the lock entry: the clock value at which KV drops it
  now,           \* Date.now()
  call,          \* call[c]: the getValidAccessToken invocation of caller c
  refreshCalls,  \* POSTs sent to https://oauth2.googleapis.com/token
  issued,        \* access tokens issued by the token endpoint so far
  recorded,      \* recorded[t]: the expiry written to the store for access token t
  ENVIRONMENT,   \* process.env.ENVIRONMENT of the deployment
  uuids,         \* crypto.randomUUID() values drawn so far
  cursor,        \* page tokens the Drive API has handed out so far
  channels,      \* subscribe calls (changes/watch) the Drive API accepted
  last,          \* the last handler invocation: its headers, provider calls and response
  ops,           \* handler invocations so far
  run,           \* run[p]: an invocation whose puts of the channel fields are in flight
  ratelimit,     \* the entry of the namespace under ratelimit:<ip>:<route>
  request,       \* request[r]: request r of one client to one route, inside rateLimit
  cache          \* the responses held by the Cache API under drive-webhook-cache

handlerVars == <<ENVIRONMENT, ratelimit, request, cache, uuids, cursor, channels, last, ops, run>>
vars == <<drive_kv, lockExpireAt, now, call, refreshCalls, issued, recorded,
          ENVIRONMENT, ratelimit, request, cache, uuids, cursor, channels, last, ops, run>>

\* two invocations that overlap: the scheduled handler (index.ts:695-709)
\* and a fetch handler, or two scheduled handlers
Runs == {1, 2}

\* the channel fields of the namespace (index.ts:308-313, helper.ts:163-167)
ChannelKeys == {"driveChannelId", "driveResourceId", "driveChannelExpiration",
                "driveWebhookToken"}
ChannelFields(kv) == [k \in ChannelKeys |-> kv[k]]
NoChannel == [k \in ChannelKeys |-> IF k \in NumKeys THEN NoNum ELSE NULL]

\* an invocation that has not started.  kind: the handler; todo: the puts of
\* its Promise.all that have not reached the namespace; writes: their values;
\* registered: the channel its subscribe call registered with the provider
Idle == [pc |-> "idle", kind |-> "none", todo |-> {}, writes |-> NoChannel,
         registered |-> NoChannel]

(***************************************************************************)
(* KV namespace: get / put / delete                                        *)
(***************************************************************************)
\* The lock entry is written with expirationTtl: KV stops returning it
\* once the TTL has run out.
KVGet(kv, key) ==
  IF key = LOCK_KEY /\ lockExpireAt # NoNum /\ now >= lockExpireAt
    THEN NoNum
    ELSE kv[key]

KVPut(kv, key, value) == [kv EXCEPT ![key] = value]

KVDelete(kv, key) == [kv EXCEPT ![key] = IF key \in NumKeys THEN NoNum ELSE NULL]

\* recorded expiry of a token; 0 when no expiry was ever stored for it
RecordedExpiry(t) == IF t \in DOMAIN recorded THEN recorded[t] ELSE 0

AccessTokenName(i) == "at" \o ToString(i)

(***************************************************************************)
(* getValidAccessToken, one step per await                                 *)
(***************************************************************************)
ExpiresIn == {3600}   \* expires_in of a token-endpoint response, in seconds

NewCall == [pc |-> "start", token |-> NULL, expiry |-> 0, now |-> 0,
            lockTimestamp |-> NoNum, wakeAt |-> 0, retries |-> 0,
            access_token |-> NULL, expires_in |-> 0, error |-> NULL,
            acquired |-> FALSE, outcome |-> "pending", result |-> NULL,
            returnedAt |-> 0, lockAtResolve |-> NoNum, firstLock |-> NoNum]

\* helper.ts:241  token && Date.now() < expiry - EARLY_REFRESH_MS
TokenStillValid(token, expiry, t) == Truthy(token) /\ t < expiry - EARLY_REFRESH_MS

\* mutant of LockHeld: the age comparison inverted
LockHeld_Inverted(lockTimestamp, t) ==
  TruthyNum(lockTimestamp) /\ t - Number(lockTimestamp) > LOCK_TTL_MS

\* mutant of LockHeld: a lock entry is honoured whatever its age
LockHeld_AnyAge(lockTimestamp, t) == TruthyNum(lockTimestamp)

\* helper.ts:249  lockTimestamp && now - Number(lockTimestamp) < LOCK_TTL_MS
LockHeld(lockTimestamp, t) ==
  TruthyNum(lockTimestamp) /\ t - Number(lockTimestamp) < LOCK_TTL_MS

\* helper.ts:195-205  the credential checks of refreshAccessToken
MissingCredential(kv) ==
  IF ~Truthy(kv["refreshToken"]) THEN "No refresh token available"
  ELSE IF ~Truthy(kv["google_client_id"]) THEN "No client ID available"
  ELSE IF ~Truthy(kv["google_client_secret"]) THEN "No client secret available"
  ELSE NULL

\* the promise resolves with a token / rejects with an error; returnedAt and
\* lockAtResolve note the clock and the stored lock entry at that moment
Returns(c, token, lock) ==
  [call[c] EXCEPT !.pc = "done", !.outcome = "returned", !.result = token,
                  !.returnedAt = now, !.lockAtResolve = lock]

\* mutant of Throws: the refresh error is swallowed and the token read at
\* the start of the call is returned
Throws_ReturnsCached(c, lock) == Returns(c, call[c].token, lock)

Throws(c, lock) ==
  [call[c] EXCEPT !.pc = "done", !.outcome = "threw",
                  !.returnedAt = now, !.lockAtResolve = lock]

\* helper.ts:237
GetToken(c) ==
  /\ call[c].pc = "start"
  /\ call' = [call EXCEPT ![c].token = KVGet(drive_kv, "accessToken"),
                          ![c].pc = "get_expiry"]
  /\ UNCHANGED <<drive_kv, lockExpireAt, now, refreshCalls, issued, recorded>>
  /\ UNCHANGED handlerVars

\* helper.ts:238-245
GetExpiry(c) ==
  /\ call[c].pc = "get_expiry"
  /\ LET expiry == Number(KVGet(drive_kv, "accessTokenExpiry"))
     IN  call' = [call EXCEPT ![c] =
                    IF TokenStillValid(call[c].token, expiry, now)
                      THEN [Returns(c, call[c].token, KVGet(drive_kv, LOCK_KEY))
                              EXCEPT !.expiry = expiry]
                      ELSE [call[c] EXCEPT !.expiry = expiry, !.now = now,
                                           !.pc = "get_lock"]]
  /\ UNCHANGED <<drive_kv, lockExpireAt, now, refreshCalls, issued, recorded>>
  /\ UNCHANGED handlerVars

\* helper.ts:246-253
GetLock(c) ==
  /\ call[c].pc = "get_lock"
  /\ LET lockTimestamp == KVGet(drive_kv, LOCK_KEY)
     IN  call' = [call EXCEPT ![c] =
                    IF LockHeld(lockTimestamp, call[c].now)
                      THEN [call[c] EXCEPT !.lockTimestamp = lockTimestamp,
                                           !.firstLock =
                                              IF @ = NoNum THEN lockTimestamp ELSE @,
                                           !.wakeAt = now + SLEEP_MS,
                                           !.pc = "sleep"]
                      ELSE [call[c] EXCEPT !.lockTimestamp = lockTimestamp,
                                           !.pc = "put_lock"]]
  /\ UNCHANGED <<drive_kv, lockExpireAt, now, refreshCalls, issued, recorded>>
  /\ UNCHANGED handlerVars

\* mutant of Wake: the retry resumes at the read of the lock, with the
\* token and the expiry read before the sleep
Wake_ResumesAtLock(c) ==
  /\ call[c].pc = "sleep"
  /\ call[c].retries < MaxRetries
  /\ Max(now, call[c].wakeAt) <= MaxNow
  /\ now' = Max(now, call[c].wakeAt)
  /\ call' = [call EXCEPT ![c].pc = "get_lock", ![c].retries = @ + 1]
  /\ UNCHANGED <<drive_kv, lockExpireAt, refreshCalls, issued, recorded>>
  /\ UNCHANGED handlerVars

\* helper.ts:251-252  sleep(800), then the whole procedure again; rounds
\* caps the wait-and-retry rounds of the call
WakeWithin(c, rounds) ==
  /\ call[c].pc = "sleep"
  /\ call[c].retries < rounds
  /\ Max(now, call[c].wakeAt) <= MaxNow
  /\ now' = Max(now, call[c].wakeAt)
  /\ call' = [call EXCEPT ![c].pc = "start", ![c].retries = @ + 1]
  /\ UNCHANGED <<drive_kv, lockExpireAt, refreshCalls, issued, recorded>>
  /\ UNCHANGED handlerVars

Wake(c) == WakeWithin(c, MaxRetries)

\* helper.ts:256-258
PutLock(c) ==
  /\ call[c].pc = "put_lock"
  /\ drive_kv' = KVPut(drive_kv, LOCK_KEY, call[c].now)
  /\ lockExpireAt' = now + LOCK_TTL_MS
  /\ call' = [call EXCEPT ![c].pc = "refresh", ![c].acquired = TRUE]
  /\ UNCHANGED <<now, refreshCalls, issued, recorded>>
  /\ UNCHANGED handlerVars

\* helper.ts:190-216  refreshAccessToken up to the POST to the token endpoint
RefreshSend(c) ==
  /\ call[c].pc = "refresh"
  /\ LET missing == MissingCredential(drive_kv)
     IN  IF missing # NULL
           THEN /\ call' = [call EXCEPT ![c].error = missing, ![c].pc = "finally"]
                /\ UNCHANGED refreshCalls
           ELSE /\ call' = [call EXCEPT ![c].pc = "fetch"]
                /\ refreshCalls' = refreshCalls + 1
  /\ UNCHANGED <<drive_kv, lockExpireAt, now, issued, recorded>>
  /\ UNCHANGED handlerVars

\* helper.ts:218-225  the token endpoint answers
RefreshFail(c) ==
  /\ call[c].pc = "fetch"
  /\ call' = [call EXCEPT ![c].error = "Failed to refresh access token",
                          ![c].pc = "finally"]
  /\ UNCHANGED <<drive_kv, lockExpireAt, now, refreshCalls, issued, recorded>>
  /\ UNCHANGED handlerVars

RefreshOk(c) ==
  /\ call[c].pc = "fetch"
  /\ \E expires_in \in ExpiresIn :
       call' = [call EXCEPT ![c].access_token = AccessTokenName(issued + 1),
                            ![c].expires_in = expires_in,
                            ![c].pc = "put_token"]
  /\ issued' = issued + 1
  /\ UNCHANGED <<drive_kv, lockExpireAt, now, refreshCalls, recorded>>
  /\ UNCHANGED handlerVars

\* helper.ts:265
PutAccessToken(c) ==
  /\ call[c].pc = "put_token"
  /\ drive_kv' = KVPut(drive_kv, "accessToken", call[c].access_token)
  /\ call' = [call EXCEPT ![c].pc = "put_expiry"]
  /\ UNCHANGED <<lockExpireAt, now, refreshCalls, issued, recorded>>
  /\ UNCHANGED handlerVars

\* helper.ts:266-269
PutAccessTokenExpiry(c) ==
  /\ call[c].pc = "put_expiry"
  /\ LET expiry == now + call[c].expires_in * 1000
     IN  /\ drive_kv' = KVPut(drive_kv, "accessTokenExpiry", expiry)
         /\ recorded' = (call[c].access_token :> expiry) @@ recorded
  /\ call' = [call EXCEPT ![c].pc = "finally"]
  /\ UNCHANGED <<lockExpireAt, now, refreshCalls, issued>>
  /\ UNCHANGED handlerVars

\* mutant of ReleaseLock: the delete after the try block instead of in a
\* finally, so that a refresh error skips it
ReleaseLock_NoFinally(c) ==
  /\ call[c].pc = "finally"
  /\ IF call[c].error # NULL
       THEN /\ call' = [call EXCEPT ![c] = Throws(c, KVGet(drive_kv, LOCK_KEY))]
            /\ UNCHANGED <<drive_kv, lockExpireAt>>
       ELSE /\ drive_kv' = KVDelete(drive_kv, LOCK_KEY)
            /\ lockExpireAt' = NoNum
            /\ call' = [call EXCEPT ![c] = Returns(c, call[c].access_token, NoNum)]
  /\ UNCHANGED <<now, refreshCalls, issued, recorded>>
  /\ UNCHANGED handlerVars

\* helper.ts:272-275  finally: delete the lock, then return or rethrow
ReleaseLock(c) ==
  /\ call[c].pc = "finally"
  /\ drive_kv' = KVDelete(drive_kv, LOCK_KEY)
  /\ lockExpireAt' = NoNum
  /\ call' = [call EXCEPT ![c] =
                IF call[c].error # NULL
                  THEN Throws(c, NoNum)
                  ELSE Returns(c, call[c].access_token, NoNum)]
  /\ UNCHANGED <<now, refreshCalls, issued, recorded>>
  /\ UNCHANGED handlerVars

(***************************************************************************)
(* The store the worker runs against: refresh token and client credentials *)
(* put there by the setup (each possibly missing), and an access token     *)
(* that is absent, within the early-refresh margin, or valid.              *)
(***************************************************************************)
InitExpiries == {InitNow + LOCK_TTL_MS, InitNow + 3600 * 1000}

Credentials ==
  { [refreshToken |-> "rt0", google_client_id |-> "cid", google_client_secret |-> "sec"],
    [refreshToken |-> NULL,  google_client_id |-> "cid", google_client_secret |-> "sec"],
    [refreshToken |-> "rt0", google_client_id |-> NULL,  google_client_secret |-> "sec"],
    [refreshToken |-> "rt0", google_client_id |-> "cid", google_client_secret |-> NULL] }

WithCredentials(kv, cred) ==
  [kv EXCEPT !["refreshToken"] = cred.refreshToken,
             !["google_client_id"] = cred.google_client_id,
             !["google_client_secret"] = cred.google_client_secret]

InitToken ==
  /\ now = InitNow
  /\ lockExpireAt = NoNum
  /\ call = [c \in Callers |-> NewCall]
  /\ refreshCalls = 0
  /\ issued = 0
  /\ ENVIRONMENT = NULL
  /\ ratelimit = NoEntry
  /\ request = [r \in Requests |-> NoRequest]
  /\ cache = {}
  /\ uuids = 0
  /\ cursor = 0
  /\ channels = {}
  /\ last = [op |-> "none"]
  /\ ops = 0
  /\ run = [p \in Runs |-> Idle]
  /\ \E cred \in Credentials :
       \/ /\ drive_kv = WithCredentials(EmptyKV, cred)
          /\ recorded = <<>>
       \/ \E e \in InitExpiries :
            /\ drive_kv = [WithCredentials(EmptyKV, cred) EXCEPT
                             !["accessToken"] = "at0", !["accessTokenExpiry"] = e]
            /\ recorded = ("at0" :> e)

NextToken ==
  \/ \E c \in Callers :
       \/ GetToken(c)
       \/ GetExpiry(c)
       \/ GetLock(c)
       \/ Wake(c)
       \/ PutLock(c)
       \/ RefreshSend(c)
       \/ RefreshFail(c)
       \/ RefreshOk(c)
       \/ PutAccessToken(c)
       \/ PutAccessTokenExpiry(c)
       \/ ReleaseLock(c)

SpecToken == InitToken /\ [][NextToken]_vars

(***************************************************************************)
(* An abandoned lock holder.  An invocation of the worker can be cancelled *)
(* at any await (the request times out, the isolate is evicted): the code  *)
(* after that await, the finally block included, never runs.  Time passes  *)
(* between the calls.  The first call runs alone until it is abandoned;    *)
(* the later calls start after that and overlap with each other.           *)
(***************************************************************************)
\* the awaits between the put of the lock (helper.ts:256) and the delete in
\* the finally block (helper.ts:274)
LockOwned == {"refresh", "fetch", "put_token", "put_expiry", "finally"}

\* one call is abandoned
Abandon(c) ==
  /\ call[c].pc \in LockOwned
  /\ \A d \in Callers : call[d].pc # "abandoned"
  /\ call' = [call EXCEPT ![c].pc = "abandoned", ![c].outcome = "abandoned",
                          ![c].returnedAt = now]
  /\ UNCHANGED <<drive_kv, lockExpireAt, now, refreshCalls, issued, recorded>>
  /\ UNCHANGED handlerVars

\* time that passes between two steps: one sleep(800) short of LOCK_TTL_MS,
\* so that the retry of a waiter lands on the boundary
ElapseMs == {LOCK_TTL_MS - SLEEP_MS}

Elapse ==
  /\ \E d \in ElapseMs :
       /\ now + d <= MaxNow
       /\ now' = now + d
  /\ UNCHANGED <<drive_kv, lockExpireAt, call, refreshCalls, issued, recorded>>
  /\ UNCHANGED handlerVars

\* the store after the setup, with an access token that is about to expire
InitAbandon ==
  /\ InitToken
  /\ Truthy(drive_kv["accessToken"])
  /\ \A k \in {"refreshToken", "google_client_id", "google_client_secret"} :
       Truthy(drive_kv[k])
  /\ ~TokenStillValid(drive_kv["accessToken"], Number(drive_kv["accessTokenExpiry"]), now)

Started(c) == call[c].pc # "start" \/ call[c].retries > 0

\* c is the first call, or a call made after a call was abandoned
MayStep(c) ==
  \/ \A d \in Callers \ {c} : ~Started(d)
  \/ \E a \in Callers : call[a].pc = "abandoned"

NextAbandon ==
  \/ \E c \in Callers :
       /\ MayStep(c)
       /\ \/ GetToken(c)
          \/ GetExpiry(c)
          \/ GetLock(c)
          \/ Wake(c)
          \/ PutLock(c)
          \/ RefreshSend(c)
          \/ RefreshFail(c)
          \/ RefreshOk(c)
          \/ PutAccessToken(c)
          \/ PutAccessTokenExpiry(c)
          \/ ReleaseLock(c)
          \/ Abandon(c)
  \/ Elapse

SpecAbandon == InitAbandon /\ [][NextAbandon]_vars

(***************************************************************************)
(* Overlapping calls while time passes between their awaits                *)
(***************************************************************************)
NextTimed ==
  \/ NextToken
  \/ Elapse

SpecTimed == InitAbandon /\ [][NextTimed]_vars

(***************************************************************************)
(* A waiting call and later calls.  getValidAccessToken is called by every *)
(* request that needs a token (index.ts:173-177 and the scheduled renewal, *)
(* helper.ts:142), so while one call sleeps further calls arrive: a caller *)
(* whose call has resolved calls again.                                    *)
(***************************************************************************)
LaterCall(c) ==
  /\ call[c].pc = "done"
  /\ ops < MaxLaterCalls
  /\ ops' = ops + 1
  /\ call' = [call EXCEPT ![c] = NewCall]
  /\ UNCHANGED <<drive_kv, lockExpireAt, now, refreshCalls, issued, recorded,
                 ENVIRONMENT, ratelimit, request, cache, uuids, cursor,
                 channels, last, run>>

NextContended ==
  \/ \E c \in Callers :
       \/ GetToken(c)
       \/ GetExpiry(c)
       \/ GetLock(c)
       \/ WakeWithin(c, MaxRounds)
       \/ PutLock(c)
       \/ RefreshSend(c)
       \/ RefreshFail(c)
       \/ RefreshOk(c)
       \/ PutAccessToken(c)
       \/ PutAccessTokenExpiry(c)
       \/ ReleaseLock(c)
       \/ LaterCall(c)
  \/ Elapse

SpecContended == InitAbandon /\ [][NextContended]_vars

(***************************************************************************)
(* Helpers of helper.ts used by the Drive handlers                         *)
(***************************************************************************)
\* helper.ts:18-28
getOrUpdateKV_AlwaysPut(kv, key, value) ==
  [kv |-> KVPut(kv, key, value), value |-> value]

\* mutant of getOrUpdateKV: the value of the payload is used, never stored
getOrUpdateKV_NoPut(kv, key, value) ==
  IF Truthy(value)
    THEN [kv |-> kv, value |-> value]
    ELSE [kv |-> kv, value |-> KVGet(kv, key)]

getOrUpdateKV(kv, key, value) ==
  IF Truthy(value)
    THEN [kv |-> KVPut(kv, key, value), value |-> value]
    ELSE [kv |-> kv, value |-> KVGet(kv, key)]

\* helper.ts:282-292
validateDriveWebhook_AnyToken(expectedToken, receivedToken) ==
  Truthy(receivedToken)

validateDriveWebhook(expectedToken, receivedToken) ==
  ~(~Truthy(receivedToken) \/ receivedToken # expectedToken)

PageTokenName(i) == "pt" \o ToString(i)

\* change records of a response (helper.ts:298-307): a file inside the
\* tracked folder and a file outside it
InsideFile == [id |-> "file1", parents |-> {"folderA"}]
OutsideFile == [id |-> "file2", parents |-> {"folderB"}]
ChangeLists == { <<>>, <<InsideFile>>, <<OutsideFile>>, <<InsideFile, OutsideFile>> }

\* answers of GET drive/v3/changes: a non-success response, or a change list
\* with or without newStartPageToken
ChangesResponses ==
  { [ok |-> FALSE, newStartPageToken |-> NULL, changes |-> <<>>],
    [ok |-> TRUE,  newStartPageToken |-> NULL,
     changes |-> <<InsideFile, OutsideFile>>],
    [ok |-> TRUE,  newStartPageToken |-> PageTokenName(cursor + 1),
     changes |-> <<InsideFile, OutsideFile>>] }

\* the same answers, with every change list
ChangeListResponses ==
  { [ok |-> FALSE, newStartPageToken |-> NULL, changes |-> <<>>] } \cup
  [ok : {TRUE}, newStartPageToken : {NULL, PageTokenName(cursor + 1)},
   changes : ChangeLists]

\* the files the loop of helper.ts:340-347 logs as uploaded
LoggedFiles(changes, googleDriveFolderID) ==
  { changes[i].id : i \in { n \in DOMAIN changes :
                              googleDriveFolderID \in changes[n].parents } }

\* what fetchAndLogChanges returns: the text of an error (helper.ts:319, 344)
\* or the data of the response (helper.ts:356); text is NULL for data
TextResult(text) == [text |-> text, changes |-> <<>>, newStartPageToken |-> NULL]

\* no change fetch was made by the handler
NoResult == TextResult(NULL)

\* mutant of fetchAndLogChanges: the successor token is stored and the
\* change set returned only for changes inside the tracked folder
fetchAndLogChanges_OnlyTracked(kv, accessToken, googleDriveFolderID, googleDriveStartPageToken, res) ==
  LET startPageToken ==
        IF googleDriveStartPageToken # NULL
          THEN googleDriveStartPageToken
          ELSE KVGet(kv, "google_drive_start_page_token")
      logged == LoggedFiles(res.changes, googleDriveFolderID)
      inside == SelectSeq(res.changes, LAMBDA ch : googleDriveFolderID \in ch.parents)
  IN  IF ~Truthy(startPageToken)
        THEN [kv |-> kv, fetch |-> "none", pageToken |-> startPageToken,
              result |-> TextResult("No startPageToken"), newStartPageToken |-> NULL,
              logged |-> {}]
      ELSE IF ~res.ok
        THEN [kv |-> kv, fetch |-> "failed", pageToken |-> startPageToken,
              result |-> TextResult("Drive API error"), newStartPageToken |-> NULL,
              logged |-> {}]
      ELSE [kv |-> IF Truthy(res.newStartPageToken) /\ logged # {}
                     THEN KVPut(kv, "google_drive_start_page_token",
                                res.newStartPageToken)
                     ELSE kv,
            fetch |-> "ok", pageToken |-> startPageToken,
            result |-> [text |-> NULL, changes |-> inside,
                        newStartPageToken |-> res.newStartPageToken],
            newStartPageToken |-> res.newStartPageToken, logged |-> logged]

\* helper.ts:309-357.  result: what the routine returns (the string of an
\* error, or the response data); logged: the files logged as uploaded
fetchAndLogChanges(kv, accessToken, googleDriveFolderID, googleDriveStartPageToken, res) ==
  LET startPageToken ==
        IF googleDriveStartPageToken # NULL
          THEN googleDriveStartPageToken
          ELSE KVGet(kv, "google_drive_start_page_token")
  IN  IF ~Truthy(startPageToken)
        THEN [kv |-> kv, fetch |-> "none", pageToken |-> startPageToken,
              result |-> TextResult("No startPageToken"), newStartPageToken |-> NULL,
              logged |-> {}]
      ELSE IF ~res.ok
        THEN [kv |-> kv, fetch |-> "failed", pageToken |-> startPageToken,
              result |-> TextResult("Drive API error"), newStartPageToken |-> NULL,
              logged |-> {}]
      ELSE [kv |-> IF Truthy(res.newStartPageToken)
                     THEN KVPut(kv, "google_drive_start_page_token",
                                res.newStartPageToken)
                     ELSE kv,
            fetch |-> "ok", pageToken |-> startPageToken,
            result |-> [text |-> NULL, changes |-> res.changes,
                        newStartPageToken |-> res.newStartPageToken],
            newStartPageToken |-> res.newStartPageToken,
            logged |-> LoggedFiles(res.changes, googleDriveFolderID)]

(***************************************************************************)
(* POST /drive/webhook                                                     *)
(***************************************************************************)
ResourceStates == {"sync", "change"}            \* X-Goog-Resource-State
BodyFolderIds == {"", "folderA"}                \* drive_folder_id (required string)
BodyAccessTokens == {NULL, "body_at"}           \* access_token (optional)
BodyPageTokens == {NULL, "body_pt"}             \* drive_start_page_token (optional)

WebhookBodies ==
  [drive_folder_id : BodyFolderIds, access_token : BodyAccessTokens,
   drive_start_page_token : BodyPageTokens]

\* X-Goog-Channel-Token: absent, a wrong token, or the stored one
ReceivedTokens == {NULL, "invalid_token", drive_kv["driveWebhookToken"]}

\* index.ts:146
IsSync_Never(state) == FALSE

IsSync(state) == state = "sync"

\* mutant of WebhookRun: the three entries are resolved, and the values of
\* the body stored, before the channel token is validated
WebhookRun_ResolvesFirst(kv, state, receivedToken, body, res) ==
  IF IsSync(state)
    THEN [kv |-> kv, status |-> 200, message |-> "Sync acknowledged",
          state |-> state, fetch |-> "none", newStartPageToken |-> NULL,
          pageToken |-> NULL, result |-> NoResult, logged |-> {}]
  ELSE
    LET folder == getOrUpdateKV(kv, "drive_folder_id", body.drive_folder_id)
        page   == getOrUpdateKV(folder.kv, "drive_start_page_token",
                                body.drive_start_page_token)
        token  == getOrUpdateKV(page.kv, "accessToken", body.access_token)
    IN  IF ~validateDriveWebhook(KVGet(kv, "driveWebhookToken"), receivedToken)
          THEN [kv |-> token.kv, status |-> 401, message |-> "Unauthorized webhook",
                state |-> NULL, fetch |-> "none", newStartPageToken |-> NULL,
                pageToken |-> NULL, result |-> NoResult, logged |-> {}]
        ELSE IF ~Truthy(token.value) \/ ~Truthy(folder.value) \/ ~Truthy(page.value)
          THEN [kv |-> token.kv, status |-> 400,
                message |-> "Missing required Drive configuration",
                state |-> NULL, fetch |-> "none", newStartPageToken |-> NULL,
                pageToken |-> NULL, result |-> NoResult, logged |-> {}]
          ELSE LET f == fetchAndLogChanges(token.kv, token.value, folder.value,
                                           page.value, res)
               IN  [kv |-> f.kv, status |-> 200, message |-> "Change processed",
                    state |-> NULL, fetch |-> f.fetch,
                    newStartPageToken |-> f.newStartPageToken,
                    pageToken |-> f.pageToken, result |-> f.result,
                    logged |-> f.logged]

\* the response and the effects of one webhook invocation (index.ts:141-203)
WebhookRun(kv, state, receivedToken, body, res) ==
  IF IsSync(state)
    THEN [kv |-> kv, status |-> 200, message |-> "Sync acknowledged",
          state |-> state, fetch |-> "none", newStartPageToken |-> NULL,
          pageToken |-> NULL, result |-> NoResult, logged |-> {}]
  ELSE IF ~validateDriveWebhook(KVGet(kv, "driveWebhookToken"), receivedToken)
    THEN [kv |-> kv, status |-> 401, message |-> "Unauthorized webhook",
          state |-> NULL, fetch |-> "none", newStartPageToken |-> NULL,
          pageToken |-> NULL, result |-> NoResult, logged |-> {}]
  ELSE
    LET folder == getOrUpdateKV(kv, "drive_folder_id", body.drive_folder_id)
        page   == getOrUpdateKV(folder.kv, "drive_start_page_token",
                                body.drive_start_page_token)
        token  == getOrUpdateKV(page.kv, "accessToken", body.access_token)
    IN  IF ~Truthy(token.value) \/ ~Truthy(folder.value) \/ ~Truthy(page.value)
          THEN [kv |-> token.kv, status |-> 400,
                message |-> "Missing required Drive configuration",
                state |-> NULL, fetch |-> "none", newStartPageToken |-> NULL,
                pageToken |-> NULL, result |-> NoResult, logged |-> {}]
          ELSE LET f == fetchAndLogChanges(token.kv, token.value, folder.value,
                                           page.value, res)
               IN  [kv |-> f.kv, status |-> 200, message |-> "Change processed",
                    state |-> NULL, fetch |-> f.fetch,
                    newStartPageToken |-> f.newStartPageToken,
                    pageToken |-> f.pageToken, result |-> f.result,
                    logged |-> f.logged]

\* detail: what else of the request the record of the invocation keeps
WebhookStep(state, receivedToken, body, res, detail) ==
    /\ ops < MaxOps
    /\ ops' = ops + 1
    /\ Truthy(res.newStartPageToken) => cursor < MaxCursor
    /\ LET r == WebhookRun(drive_kv, state, receivedToken, body, res)
       IN  /\ drive_kv' = r.kv
           /\ cursor' = IF r.fetch = "ok" /\ Truthy(r.newStartPageToken)
                          THEN cursor + 1 ELSE cursor
           /\ last' = [op |-> "webhook", resourceState |-> state,
                       receivedToken |-> receivedToken, status |-> r.status,
                       message |-> r.message, state |-> r.state,
                       fetch |-> r.fetch, pageToken |-> r.pageToken,
                       newStartPageToken |-> r.newStartPageToken,
                       result |-> r.result, logged |-> r.logged] @@ detail
    /\ UNCHANGED <<lockExpireAt, now, call, run, refreshCalls, issued, recorded,
                   ENVIRONMENT, ratelimit, request, cache, uuids, channels>>

Webhook ==
  \E state \in ResourceStates, receivedToken \in ReceivedTokens,
     body \in WebhookBodies, res \in ChangesResponses :
    WebhookStep(state, receivedToken, body, res, <<>>)

\* the same invocation with every change list, its request body and the
\* answer of the Drive API kept in the record
Notification ==
  \E state \in ResourceStates, receivedToken \in ReceivedTokens,
     body \in WebhookBodies, res \in ChangeListResponses :
    /\ ops < MaxNotifications
    /\ WebhookStep(state, receivedToken, body, res,
                   [body |-> body, response |-> res])

(***************************************************************************)
(* POST /drive/startPageToken                                              *)
(***************************************************************************)
\* answers of GET drive/v3/changes/startPageToken
StartPageTokenResponses ==
  { [ok |-> FALSE, startPageToken |-> NULL],
    [ok |-> TRUE,  startPageToken |-> NULL],
    [ok |-> TRUE,  startPageToken |-> PageTokenName(cursor + 1)] }

StartPageTokenRun_Unchecked(kv, access_token, res) ==
  LET token == getOrUpdateKV(kv, "accessToken", access_token)
  IN  IF ~Truthy(token.value)
        THEN [kv |-> token.kv, status |-> 400, message |-> "Access token missing",
              drive_start_page_token |-> NULL]
      ELSE [kv |-> KVPut(token.kv, "drive_start_page_token", res.startPageToken),
            status |-> 200, message |-> "Drive change tracking initialized",
            drive_start_page_token |-> res.startPageToken]

\* index.ts:347-403
StartPageTokenRun(kv, access_token, res) ==
  LET token == getOrUpdateKV(kv, "accessToken", access_token)
  IN  IF ~Truthy(token.value)
        THEN [kv |-> token.kv, status |-> 400, message |-> "Access token missing",
              drive_start_page_token |-> NULL]
      ELSE IF ~res.ok
        THEN [kv |-> token.kv, status |-> 500,
              message |-> "Failed to fetch startPageToken",
              drive_start_page_token |-> NULL]
      ELSE IF ~Truthy(res.startPageToken)
        THEN [kv |-> token.kv, status |-> 500,
              message |-> "StartPageToken missing in response",
              drive_start_page_token |-> NULL]
      ELSE [kv |-> KVPut(token.kv, "drive_start_page_token", res.startPageToken),
            status |-> 200, message |-> "Drive change tracking initialized",
            drive_start_page_token |-> res.startPageToken]

StartPageTokenStep(access_token, res, detail) ==
  /\ ops' = ops + 1
  /\ Truthy(res.startPageToken) => cursor < MaxCursor
  /\ LET r == StartPageTokenRun(drive_kv, access_token, res)
     IN  /\ drive_kv' = r.kv
         /\ cursor' = IF r.status = 200 THEN cursor + 1 ELSE cursor
         /\ last' = [op |-> "startPageToken",
                     status |-> r.status, message |-> r.message,
                     drive_start_page_token |-> r.drive_start_page_token]
                    @@ detail
  /\ UNCHANGED <<lockExpireAt, now, call, run, refreshCalls, issued, recorded,
                 ENVIRONMENT, ratelimit, request, cache, uuids, channels>>

StartPageToken ==
  \E access_token \in {"", "body_at"}, res \in StartPageTokenResponses :
    /\ ops < MaxOps
    /\ StartPageTokenStep(access_token, res, <<>>)

\* the same handler, with the request and the provider's answer recorded
Initialisation ==
  \E access_token \in {"", "body_at"}, res \in StartPageTokenResponses :
    /\ ops < MaxNotifications
    /\ StartPageTokenStep(access_token, res,
                          [access_token |-> access_token, response |-> res])

(***************************************************************************)
(* getValidAccessToken run to completion by one caller while no other      *)
(* caller is inside it (helper.ts:236-276, refreshAccessToken 190-226)     *)
(***************************************************************************)
\* answers of POST https://oauth2.googleapis.com/token
RefreshResponses ==
  { [ok |-> FALSE, access_token |-> NULL, expires_in |-> 0] } \cup
  { [ok |-> TRUE, access_token |-> AccessTokenName(issued + 1), expires_in |-> e] :
      e \in ExpiresIn }

getValidAccessToken(kv, res) ==
  LET token  == KVGet(kv, "accessToken")
      expiry == Number(KVGet(kv, "accessTokenExpiry"))
  IN  IF TokenStillValid(token, expiry, now)
        THEN [kv |-> kv, token |-> token, threw |-> FALSE, sent |-> FALSE,
              refreshed |-> FALSE]
      ELSE IF MissingCredential(kv) # NULL
        THEN [kv |-> kv, token |-> NULL, threw |-> TRUE, sent |-> FALSE,
              refreshed |-> FALSE]
      ELSE IF ~res.ok
        THEN [kv |-> kv, token |-> NULL, threw |-> TRUE, sent |-> TRUE,
              refreshed |-> FALSE]
      ELSE [kv |-> KVPut(KVPut(kv, "accessToken", res.access_token),
                         "accessTokenExpiry", now + res.expires_in * 1000),
            token |-> res.access_token, threw |-> FALSE, sent |-> TRUE,
            refreshed |-> TRUE]

\* the token endpoint's counters and the expiry written for a refreshed token
TokenGhosts(g, res) ==
  /\ refreshCalls' = IF g.sent THEN refreshCalls + 1 ELSE refreshCalls
  /\ issued' = IF g.refreshed THEN issued + 1 ELSE issued
  /\ recorded' = IF g.refreshed
                   THEN [t \in DOMAIN recorded \cup {res.access_token} |->
                           IF t = res.access_token
                             THEN now + res.expires_in * 1000 ELSE recorded[t]]
                   ELSE recorded

NoRefresh == [kv |-> drive_kv, token |-> NULL, threw |-> FALSE, sent |-> FALSE,
              refreshed |-> FALSE]

(***************************************************************************)
(* POST /drive/watch                                                       *)
(***************************************************************************)
StartsWith(s, prefix) ==
  Len(s) >= Len(prefix) /\ SubSeq(s, 1, Len(prefix)) = prefix

\* String.prototype.includes, the toContain of the tests
Contains(s, part) ==
  \E i \in 1 .. (Len(s) - Len(part) + 1) : SubSeq(s, i, i + Len(part) - 1) = part

WebhookUrls == {"https://example.com/webhook", "http://example.com/webhook"}
ResourceIds == {"resA"}                 \* resourceId of the subscribe response
UUID(i) == "uuid" \o ToString(i)        \* crypto.randomUUID()

\* index.ts:232-236
InsecureWebhookUrl(webhookUrl) ==
  /\ Truthy(ENVIRONMENT)
  /\ ENVIRONMENT # "development"
  /\ webhookUrl # NULL /\ StartsWith(webhookUrl, "http://")

\* Promise.all of the four puts (index.ts:308-313): the puts are independent,
\* the one in `failed` rejects and the others are stored
PersistChannel(kv, channel, failed) ==
  [k \in Keys |-> IF k \in ChannelKeys /\ k # failed THEN channel[k] ELSE kv[k]]

WatchBodies ==
  [access_token : BodyAccessTokens, drive_start_page_token : BodyPageTokens,
   worker_drive_webhook_url : WebhookUrls]

\* index.ts:221-335.  subscribeOk: the answer of changes/watch; failed: the
\* put of Promise.all that rejects (NULL: none)
WatchRun(kv, body, refresh, subscribeOk, resourceId, failed) ==
  LET url  == getOrUpdateKV(kv, "worker_drive_webhook_url",
                            body.worker_drive_webhook_url)
      page == getOrUpdateKV(url.kv, "drive_start_page_token",
                            body.drive_start_page_token)
      g    == IF Truthy(body.access_token)
                THEN [NoRefresh EXCEPT !.kv = page.kv, !.token = body.access_token]
                ELSE getValidAccessToken(page.kv, refresh)
      channel == [driveChannelId |-> UUID(uuids + 1),
                  driveResourceId |-> resourceId,
                  driveChannelExpiration |-> now + EXPIRATION_MS,
                  driveWebhookToken |-> UUID(uuids + 2)]
      base == [kv |-> kv, g |-> NoRefresh, subscribe |-> FALSE, accepted |-> FALSE,
               uuids |-> 0, channel |-> NoChannel, status |-> 0, message |-> ""]
  IN  IF InsecureWebhookUrl(url.value)
        THEN [base EXCEPT !.kv = url.kv, !.status = 400,
                !.message = "Insecure webhook URL (http). Use https endpoint webhook URL."]
      ELSE IF ~Truthy(url.value) \/ ~Truthy(page.value)
        THEN [base EXCEPT !.kv = page.kv, !.status = 400,
                !.message = "Missing webhook URL or start page token"]
      ELSE IF g.threw
        THEN [base EXCEPT !.kv = g.kv, !.g = g, !.status = 500,
                !.message = "Drive watch creation failed"]
      ELSE IF ~subscribeOk
        THEN [base EXCEPT !.kv = g.kv, !.g = g, !.subscribe = TRUE, !.uuids = 2,
                !.status = 500, !.message = "Failed to create watch channel"]
      ELSE IF failed # NULL
        THEN [base EXCEPT !.kv = PersistChannel(g.kv, channel, failed), !.g = g,
                !.subscribe = TRUE, !.accepted = TRUE, !.uuids = 2,
                !.channel = channel, !.status = 500,
                !.message = "Drive watch creation failed"]
      ELSE [base EXCEPT !.kv = PersistChannel(g.kv, channel, NULL), !.g = g,
              !.subscribe = TRUE, !.accepted = TRUE, !.uuids = 2,
              !.channel = channel, !.status = 200,
              !.message = "Drive watch channel created"]

WatchStep(body, refresh, subscribeOk, resourceId, failed) ==
    /\ ops < MaxOps
    /\ ops' = ops + 1
    /\ uuids + 2 <= MaxUUIDs
    /\ refresh.ok => issued < MaxIssued
    /\ LET r == WatchRun(drive_kv, body, refresh, subscribeOk, resourceId, failed)
       IN  /\ drive_kv' = r.kv
           /\ TokenGhosts(r.g, refresh)
           /\ uuids' = uuids + r.uuids
           /\ channels' = IF r.accepted
                            THEN channels \cup
                                 {[id |-> r.channel.driveChannelId,
                                   address |-> body.worker_drive_webhook_url,
                                   token |-> r.channel.driveWebhookToken]}
                            ELSE channels
           /\ last' = [op |-> "watch", status |-> r.status,
                       message |-> r.message, subscribe |-> r.subscribe,
                       channel |-> r.channel,
                       previous |-> ChannelFields(drive_kv)]
    /\ UNCHANGED <<lockExpireAt, now, call, run, ENVIRONMENT, ratelimit, request, cache, cursor>>

Watch ==
  \E body \in WatchBodies, refresh \in RefreshResponses,
     subscribeOk \in BOOLEAN, resourceId \in ResourceIds,
     failed \in ChannelKeys \cup {NULL} :
    WatchStep(body, refresh, subscribeOk, resourceId, failed)

(***************************************************************************)
(* POST /drive/download                                                    *)
(***************************************************************************)
DownloadBodies ==
  [access_token : BodyAccessTokens, drive_start_page_token : BodyPageTokens]

\* what the two Drive calls of the handler answer
DownloadOutcomes ==
  {"Failed to fetch changes", "File not found in recent changes",
   "Failed to download file", "file"}

\* index.ts:418-488
DownloadRun(kv, body, refresh, outcome) ==
  LET g    == IF Truthy(body.access_token)
                THEN [NoRefresh EXCEPT !.kv = kv, !.token = body.access_token]
                ELSE getValidAccessToken(kv, refresh)
      page == getOrUpdateKV(g.kv, "drive_start_page_token",
                            body.drive_start_page_token)
  IN  IF g.threw
        THEN [kv |-> g.kv, g |-> g, status |-> 500, message |-> "Download failed"]
      ELSE IF ~Truthy(page.value)
        THEN [kv |-> page.kv, g |-> g, status |-> 500,
              message |-> "Drive start page token not found"]
      ELSE [kv |-> page.kv, g |-> g,
            status |-> CASE outcome = "file" -> 200
                         [] outcome = "File not found in recent changes" -> 404
                         [] OTHER -> 500,
            message |-> outcome]

Download ==
  \E body \in DownloadBodies, refresh \in RefreshResponses,
     outcome \in DownloadOutcomes :
    /\ ops < MaxOps
    /\ ops' = ops + 1
    /\ refresh.ok => issued < MaxIssued
    /\ LET r == DownloadRun(drive_kv, body, refresh, outcome)
       IN  /\ drive_kv' = r.kv
           /\ TokenGhosts(r.g, refresh)
           /\ last' = [op |-> "download", status |-> r.status,
                       message |-> r.message]
    /\ UNCHANGED <<lockExpireAt, now, call, run, ENVIRONMENT, ratelimit, request, cache, uuids, cursor, channels>>

(***************************************************************************)
(* scheduled -> renewDriveWatchIfNeeded                                    *)
(***************************************************************************)
\* what the stop call (channels/stop, helper.ts:123-133) ends in: a success
\* response, a non-success response, or a rejected fetch (network error)
StopOutcomes == {"ok", "rejected", "throws"}

\* helper.ts:111-117
MissingWatchMetadata(channelId, resourceId, startPageToken, webhookUrl, accessToken) ==
  \/ ~Truthy(channelId)
  \/ ~Truthy(resourceId)
  \/ ~Truthy(startPageToken)
  \/ ~Truthy(webhookUrl)
  \/ ~Truthy(accessToken)

\* helper.ts:89-91
StillValid_Never(expiration) == FALSE

StillValid(expiration) == expiration - now > RENEW_THRESHOLD_MS

\* renewal is due for the namespace kv (helper.ts:83-91)
RenewalDue(kv) ==
  /\ TruthyNum(KVGet(kv, "driveChannelExpiration"))
  /\ Number(KVGet(kv, "driveChannelExpiration")) - now <= RENEW_THRESHOLD_MS

\* mutant of RenewRun: the new channel id and expiration are stored before
\* the answer of the subscribe call is looked at
RenewRun_PutsBeforeCheck(kv, refresh, stop, subscribeOk, resourceId) ==
  LET expirationStr == KVGet(kv, "driveChannelExpiration")
      expiration    == Number(expirationStr)
      g             == getValidAccessToken(kv, refresh)
      channelId     == KVGet(kv, "driveChannelId")
      resourceIdOld == KVGet(kv, "driveResourceId")
      startPageToken == KVGet(kv, "google_drive_start_page_token")
      webhookUrl    == KVGet(kv, "worker_drive_webhook_url")
      webhookToken  == KVGet(kv, "driveWebhookToken")
      newChannelId  == UUID(uuids + 1)
      expirationMs  == now + EXPIRATION_MS
      nothing == [id |-> NULL, address |-> NULL, token |-> NULL,
                  expiration |-> NoNum]
      body    == [id |-> channelId, address |-> webhookUrl,
                  token |-> webhookToken, expiration |-> expiration]
      base == [kv |-> kv, g |-> NoRefresh, outcome |-> "", stop |-> "none",
               stopped |-> NULL, subscribe |-> FALSE, accepted |-> FALSE,
               uuids |-> 0, sent |-> nothing, newChannelId |-> NULL,
               failure |-> FALSE]
      tokened == [base EXCEPT !.kv = g.kv, !.g = g,
                              !.failure = g.sent /\ ~g.refreshed]
      stopped == [tokened EXCEPT !.stop = stop, !.stopped = channelId,
                                 !.failure = @ \/ stop # "ok"]
  IN  IF ~TruthyNum(expirationStr)
        THEN [base EXCEPT !.outcome = "no channel"]
      ELSE IF StillValid(expiration)
        THEN [base EXCEPT !.outcome = "still valid"]
      ELSE IF g.threw
        THEN [tokened EXCEPT !.outcome = "token error"]
      ELSE IF MissingWatchMetadata(channelId, resourceIdOld, startPageToken,
                                   webhookUrl, g.token)
        THEN [tokened EXCEPT !.outcome = "missing metadata"]
      ELSE IF stop = "throws"
        THEN [stopped EXCEPT !.outcome = "stop failed"]
      ELSE IF ~Truthy(webhookToken)
        THEN [stopped EXCEPT !.outcome = "Missing webhook token"]
      ELSE IF ~subscribeOk
        THEN [stopped EXCEPT
                !.kv = KVPut(KVPut(g.kv, "driveChannelId", newChannelId),
                             "driveChannelExpiration", expirationMs),
                !.subscribe = TRUE, !.uuids = 1, !.sent = body,
                !.newChannelId = newChannelId, !.failure = TRUE,
                !.outcome = "failed to renew"]
      ELSE [stopped EXCEPT
              !.kv = KVPut(KVPut(KVPut(g.kv, "driveChannelId", newChannelId),
                                 "driveResourceId", resourceId),
                           "driveChannelExpiration", expirationMs),
              !.subscribe = TRUE, !.accepted = TRUE, !.uuids = 1,
              !.sent = body, !.newChannelId = newChannelId,
              !.outcome = "renewed"]

\* helper.ts:82-171.  sent: the body of the subscribe call; stopped: the id
\* of the stop call; failure: a provider call that was made did not succeed
RenewRun(kv, refresh, stop, subscribeOk, resourceId) ==
  LET expirationStr == KVGet(kv, "driveChannelExpiration")
      expiration    == Number(expirationStr)
      g             == getValidAccessToken(kv, refresh)
      channelId     == KVGet(kv, "driveChannelId")
      resourceIdOld == KVGet(kv, "driveResourceId")
      startPageToken == KVGet(kv, "google_drive_start_page_token")
      webhookUrl    == KVGet(kv, "worker_drive_webhook_url")
      webhookToken  == KVGet(kv, "driveWebhookToken")
      newChannelId  == UUID(uuids + 1)
      expirationMs  == now + EXPIRATION_MS
      nothing == [id |-> NULL, address |-> NULL, token |-> NULL,
                  expiration |-> NoNum]
      body    == [id |-> channelId, address |-> webhookUrl,
                  token |-> webhookToken, expiration |-> expiration]
      base == [kv |-> kv, g |-> NoRefresh, outcome |-> "", stop |-> "none",
               stopped |-> NULL, subscribe |-> FALSE, accepted |-> FALSE,
               uuids |-> 0, sent |-> nothing, newChannelId |-> NULL,
               failure |-> FALSE]
      tokened == [base EXCEPT !.kv = g.kv, !.g = g,
                              !.failure = g.sent /\ ~g.refreshed]
      stopped == [tokened EXCEPT !.stop = stop, !.stopped = channelId,
                                 !.failure = @ \/ stop # "ok"]
  IN  IF ~TruthyNum(expirationStr)
        THEN [base EXCEPT !.outcome = "no channel"]
      ELSE IF StillValid(expiration)
        THEN [base EXCEPT !.outcome = "still valid"]
      ELSE IF g.threw
        THEN [tokened EXCEPT !.outcome = "token error"]
      ELSE IF MissingWatchMetadata(channelId, resourceIdOld, startPageToken,
                                   webhookUrl, g.token)
        THEN [tokened EXCEPT !.outcome = "missing metadata"]
      ELSE IF stop = "throws"
        THEN [stopped EXCEPT !.outcome = "stop failed"]
      ELSE IF ~Truthy(webhookToken)
        THEN [stopped EXCEPT !.outcome = "Missing webhook token"]
      ELSE IF ~subscribeOk
        THEN [stopped EXCEPT !.subscribe = TRUE, !.uuids = 1, !.sent = body,
                !.newChannelId = newChannelId, !.failure = TRUE,
                !.outcome = "failed to renew"]
      ELSE [stopped EXCEPT
              !.kv = KVPut(KVPut(KVPut(g.kv, "driveChannelId", newChannelId),
                                 "driveResourceId", resourceId),
                           "driveChannelExpiration", expirationMs),
              !.subscribe = TRUE, !.accepted = TRUE, !.uuids = 1,
              !.sent = body, !.newChannelId = newChannelId,
              !.outcome = "renewed"]

Renew ==
  \E refresh \in RefreshResponses, stop \in StopOutcomes,
     subscribeOk \in BOOLEAN, resourceId \in ResourceIds :
    /\ ops < MaxOps
    /\ ops' = ops + 1
    /\ uuids + 1 <= MaxUUIDs
    /\ refresh.ok => issued < MaxIssued
    /\ LET r == RenewRun(drive_kv, refresh, stop, subscribeOk, resourceId)
       IN  /\ drive_kv' = r.kv
           /\ TokenGhosts(r.g, refresh)
           /\ uuids' = uuids + r.uuids
           /\ channels' = IF r.accepted
                            THEN channels \cup
                                 {[id |-> r.sent.id, address |-> r.sent.address,
                                   token |-> r.sent.token]}
                            ELSE channels
           /\ last' = [op |-> "renew", outcome |-> r.outcome,
                       due |-> RenewalDue(drive_kv), stop |-> r.stop,
                       stopped |-> r.stopped, subscribe |-> r.subscribe,
                       sent |-> r.sent, newChannelId |-> r.newChannelId,
                       refresh |-> r.g.sent, failure |-> r.failure,
                       previous |-> ChannelFields(drive_kv)]
    /\ UNCHANGED <<lockExpireAt, now, call, run, ENVIRONMENT, ratelimit, request, cache, cursor>>

\* time passes between two invocations
AdvanceMs == EXPIRATION_MS - RENEW_THRESHOLD_MS
Advance ==
  /\ ops < MaxOps
  /\ ops' = ops + 1
  /\ now' = now + AdvanceMs
  /\ last' = [op |-> "advance"]
  /\ UNCHANGED <<drive_kv, lockExpireAt, call, run, refreshCalls, issued, recorded,
                 ENVIRONMENT, ratelimit, request, cache, uuids, cursor, channels>>

(***************************************************************************)
(* The worker: handlers invoked one after the other                        *)
(***************************************************************************)
Environments == {NULL, "development", "production"}

\* A fresh deployment (empty namespace, ENVIRONMENT not set), and the namespace of a worker that has been through an
\* OAuth exchange (Exchanged, with the client credentials put with wrangler),
\* initialised change tracking ("ptA"), created a watch channel and processed
\* one change notification (folder "folderA", successor cursor "ptB").
Exchanged ==
  [EmptyKV EXCEPT !["accessToken"] = AccessTokenName(0),
                  !["accessTokenExpiry"] = InitNow + 3600 * 1000,
                  !["refreshToken"] = "rt",
                  !["google_client_id"] = "id",
                  !["google_client_secret"] = "secret"]
Subscribed ==
  [Exchanged EXCEPT !["drive_start_page_token"] = "ptA",
                    !["worker_drive_webhook_url"] = "https://example.com/webhook",
                    !["driveChannelId"] = "uuidA",
                    !["driveResourceId"] = "resA",
                    !["driveChannelExpiration"] = InitNow + EXPIRATION_MS,
                    !["driveWebhookToken"] = "uuidB",
                    !["drive_folder_id"] = "folderA",
                    !["google_drive_start_page_token"] = "ptB"]
InitStores == {EmptyKV, Subscribed}

Init ==
  /\ now = InitNow
  /\ lockExpireAt = NoNum
  /\ call = [c \in Callers |-> NewCall]
  /\ refreshCalls = 0
  /\ issued = 0
  /\ ENVIRONMENT \in Environments
  /\ ratelimit = NoEntry
  /\ request = [r \in Requests |-> NoRequest]
  /\ cache = {}
  /\ drive_kv \in InitStores
  /\ drive_kv = EmptyKV <=> ENVIRONMENT = NULL
  /\ recorded = IF Truthy(drive_kv["accessToken"])
                  THEN [t \in {drive_kv["accessToken"]} |->
                          drive_kv["accessTokenExpiry"]]
                  ELSE [t \in {} |-> 0]
  /\ uuids = 0
  /\ cursor = 0
  /\ channels = {}
  /\ last = [op |-> "none"]
  /\ ops = 0
  /\ run = [p \in Runs |-> Idle]

Next ==
  \/ Webhook
  \/ StartPageToken
  \/ Watch
  \/ Download
  \/ Renew
  \/ Advance

Spec == Init /\ [][Next]_vars

(***************************************************************************)
(* The renewal on its own: renewDriveWatchIfNeeded against every namespace *)
(* it may find.  Entries of the namespace are also put and deleted outside *)
(* the worker (wrangler kv key put / delete), and each put of create_watch *)
(* can fail on its own, so each metadata entry may be present or absent.   *)
(***************************************************************************)
\* the namespace after the documented setup: OAuth exchange, startPageToken
\* initialisation and a successful create_watch
SetUp ==
  [Subscribed EXCEPT !["drive_folder_id"] = NULL,
                     !["google_drive_start_page_token"] = NULL]

\* the entries renewal reads at helper.ts:103-107
MetadataKeys ==
  {"driveChannelId", "driveResourceId", "google_drive_start_page_token",
   "worker_drive_webhook_url", "driveWebhookToken"}

Without(kv, missing) == [k \in Keys |-> IF k \in missing THEN NULL ELSE kv[k]]

\* Subscribed, with an access token that is about to expire
Expiring == [Subscribed EXCEPT !["accessTokenExpiry"] = InitNow + LOCK_TTL_MS]

RenewStores ==
  {SetUp, Expiring} \cup
  { WithCredentials(Without(Subscribed, missing), cred) :
      missing \in SUBSET MetadataKeys, cred \in Credentials }

InitRenew ==
  /\ now = InitNow
  /\ lockExpireAt = NoNum
  /\ call = [c \in Callers |-> NewCall]
  /\ refreshCalls = 0
  /\ issued = 0
  /\ ENVIRONMENT = "production"
  /\ ratelimit = NoEntry
  /\ request = [r \in Requests |-> NoRequest]
  /\ cache = {}
  /\ drive_kv \in RenewStores
  /\ recorded = [t \in {drive_kv["accessToken"]} |-> drive_kv["accessTokenExpiry"]]
  /\ uuids = 0
  /\ cursor = 0
  /\ channels = {}
  /\ last = [op |-> "none"]
  /\ ops = 0
  /\ run = [p \in Runs |-> Idle]

NextRenew ==
  \/ Renew
  \/ Advance

SpecRenew == InitRenew /\ [][NextRenew]_vars

(***************************************************************************)
(* Webhook notifications alone, against a namespace in which the folder    *)
(* id, the page token and the access token have each been stored or not    *)
(* yet (each is put by a different step of the setup).                     *)
(***************************************************************************)
\* the entries POST /drive/webhook resolves (index.ts:160-178)
ConfigKeys == {"drive_folder_id", "drive_start_page_token", "accessToken"}

WebhookStores == { Without(Subscribed, missing) : missing \in SUBSET ConfigKeys }

InitWebhook ==
  /\ now = InitNow
  /\ lockExpireAt = NoNum
  /\ call = [c \in Callers |-> NewCall]
  /\ refreshCalls = 0
  /\ issued = 0
  /\ ENVIRONMENT = "production"
  /\ ratelimit = NoEntry
  /\ request = [r \in Requests |-> NoRequest]
  /\ cache = {}
  /\ drive_kv \in WebhookStores
  /\ recorded = IF Truthy(drive_kv["accessToken"])
                  THEN [t \in {drive_kv["accessToken"]} |->
                          drive_kv["accessTokenExpiry"]]
                  ELSE [t \in {} |-> 0]
  /\ uuids = 0
  /\ cursor = 0
  /\ channels = {}
  /\ last = [op |-> "none"]
  /\ ops = 0
  /\ run = [p \in Runs |-> Idle]

NextWebhook ==
  \/ Notification
  \/ Initialisation

SpecWebhook == InitWebhook /\ [][NextWebhook]_vars

(***************************************************************************)
(* rateLimit (src/middleware.ts:9-58) as index.ts:41-62 mounts it.  One     *)
(* client sends its requests to one route, so that all of them share the   *)
(* key ratelimit:<ip>:<route>.  A request reads the clock and the entry    *)
(* (await get) and, in a later step, decides and writes (await put); the   *)
(* requests of a Worker are served concurrently, so the steps of different *)
(* requests interleave.                                                    *)
(***************************************************************************)
NoLimit == [windowMs |-> 0, max |-> 0]

\* index.ts:41-62
RateLimitOptions(path) ==
  IF path = "/health" \/ path = "/"
    THEN [windowMs |-> 60000, max |-> 60]
  ELSE IF StartsWith(path, "/drive/")
    THEN [windowMs |-> 60000, max |-> 5]
  ELSE NoLimit

\* the route the client calls
ClientRoute == "/drive/startPageToken"

CeilDiv(a, b) == (a + b - 1) \div b

\* middleware.ts:30, in seconds
ttl(ms) == Max(CeilDiv(ms, 1000), 60)

\* middleware.ts:22-27
RateLimitGet(r) ==
  /\ request[r].pc = "idle"
  /\ \A q \in Requests : q < r => request[q].pc # "idle"
  /\ Cardinality({q \in Requests : request[q].pc = "read"}) < MaxInFlight
  /\ request' = [request EXCEPT ![r] =
       [pc |-> "read", now |-> now,
        existing |-> IF ratelimit.count > 0 /\ now < ratelimit.expireAt
                       THEN [count |-> ratelimit.count,
                             resetAt |-> ratelimit.resetAt]
                       ELSE NoExisting,
        window |-> NoNum]]
  /\ UNCHANGED <<drive_kv, lockExpireAt, now, call, refreshCalls, issued,
                 recorded, ENVIRONMENT, ratelimit, cache, uuids, cursor,
                 channels, last, ops, run>>

\* middleware.ts:32, existing && now < existing.resetAt
InWindow(existing, t) == existing # NoExisting /\ t < existing.resetAt

\* mutant of RateLimitDecide: a rejected request is counted as well
RateLimitDecide_CountsRejected(r) ==
  LET q == request[r]
      opt == RateLimitOptions(ClientRoute)
  IN  /\ q.pc = "read"
      /\ IF InWindow(q.existing, q.now)
           THEN IF q.existing.count >= opt.max
                  THEN /\ request' = [request EXCEPT ![r].pc = "429"]
                       /\ ratelimit' =
                            [count |-> q.existing.count + 1,
                             resetAt |-> q.existing.resetAt,
                             expireAt |-> now + 1000 * ttl(q.existing.resetAt - q.now)]
                  ELSE /\ ratelimit' =
                            [count |-> q.existing.count + 1,
                             resetAt |-> q.existing.resetAt,
                             expireAt |-> now + 1000 * ttl(q.existing.resetAt - q.now)]
                       /\ request' = [request EXCEPT ![r].pc = "next",
                                        ![r].window = q.existing.resetAt]
           ELSE /\ ratelimit' =
                     [count |-> 1,
                      resetAt |-> q.now + opt.windowMs,
                      expireAt |-> now + 1000 * ttl(opt.windowMs)]
                /\ request' = [request EXCEPT ![r].pc = "next",
                                 ![r].window = q.now + opt.windowMs]
      /\ UNCHANGED <<drive_kv, lockExpireAt, now, call, refreshCalls, issued,
                     recorded, ENVIRONMENT, cache, uuids, cursor, channels,
                     last, ops, run>>

\* middleware.ts:32-57; window is the resetAt of the window the request was
\* counted in
RateLimitDecide(r) ==
  LET q == request[r]
      opt == RateLimitOptions(ClientRoute)
  IN  /\ q.pc = "read"
      /\ IF InWindow(q.existing, q.now)
           THEN IF q.existing.count >= opt.max
                  THEN /\ request' = [request EXCEPT ![r].pc = "429"]
                       /\ UNCHANGED ratelimit
                  ELSE /\ ratelimit' =
                            [count |-> q.existing.count + 1,
                             resetAt |-> q.existing.resetAt,
                             expireAt |-> now + 1000 * ttl(q.existing.resetAt - q.now)]
                       /\ request' = [request EXCEPT ![r].pc = "next",
                                        ![r].window = q.existing.resetAt]
           ELSE /\ ratelimit' =
                     [count |-> 1,
                      resetAt |-> q.now + opt.windowMs,
                      expireAt |-> now + 1000 * ttl(opt.windowMs)]
                /\ request' = [request EXCEPT ![r].pc = "next",
                                 ![r].window = q.now + opt.windowMs]
      /\ UNCHANGED <<drive_kv, lockExpireAt, now, call, refreshCalls, issued,
                     recorded, ENVIRONMENT, cache, uuids, cursor, channels,
                     last, ops, run>>

\* the clock, in steps of half a window
TickMs == RateLimitOptions(ClientRoute).windowMs \div 2

Tick ==
  /\ now < InitNow + MaxTicks * TickMs
  /\ now' = now + TickMs
  /\ UNCHANGED <<drive_kv, lockExpireAt, call, refreshCalls, issued, recorded,
                 ENVIRONMENT, ratelimit, request, cache, uuids, cursor, channels,
                 last, ops, run>>

InitRate ==
  /\ InitWebhook
  /\ drive_kv = Subscribed

NextRate ==
  \/ \E r \in Requests : RateLimitGet(r)
  \/ \E r \in Requests : RateLimitDecide(r)
  \/ Tick

SpecRate == InitRate /\ [][NextRate]_vars

\* the entry of a client one request short of the limit, half a window after
\* the request that opened the window
BusyEntry ==
  [count |-> RateLimitOptions(ClientRoute).max - 1,
   resetAt |-> InitNow + TickMs,
   expireAt |-> InitNow - TickMs + 1000 * ttl(RateLimitOptions(ClientRoute).windowMs)]

InitWindow ==
  /\ now = InitNow
  /\ lockExpireAt = NoNum
  /\ call = [c \in Callers |-> NewCall]
  /\ refreshCalls = 0
  /\ issued = 0
  /\ ENVIRONMENT = "production"
  /\ ratelimit \in {NoEntry, BusyEntry}
  /\ request = [r \in Requests |-> NoRequest]
  /\ cache = {}
  /\ drive_kv = Subscribed
  /\ recorded = [t \in {drive_kv["accessToken"]} |-> drive_kv["accessTokenExpiry"]]
  /\ uuids = 0
  /\ cursor = 0
  /\ channels = {}
  /\ last = [op |-> "none"]
  /\ ops = 0
  /\ run = [p \in Runs |-> Idle]

SpecWindow == InitWindow /\ [][NextRate]_vars

(***************************************************************************)
(* The middleware chain of index.ts:39-77 in front of the handlers: the    *)
(* rate limiter, then, on every path that is not excepted, the response    *)
(* cache followed by bearerAuth.  One request at a time goes through the   *)
(* chain and, when the chain passes it on, through its handler.            *)
(***************************************************************************)
\* env.WEBHOOK_AUTH_KEY (mockEnv of index.test.ts)
WEBHOOK_AUTH_KEY == "test_auth_key"

\* the Authorization header: absent, a bearer token that is not the key,
\* the key (index.test.ts:531-587)
Authorizations == {NULL, "Bearer invalid_token", "Bearer test_auth_key"}

\* index.ts:66
ExceptPaths == {"/", "/health", "/oauth/callback", "/drive/webhook"}

\* the routes requested: one behind bearerAuth and rate limited, one
\* excepted from bearerAuth and not rate limited
RequestPaths == {"/drive/startPageToken", "/oauth/callback"}

\* index.ts:72-75: the token of a Bearer header is compared with the key
bearerAuth(authorization) ==
  /\ authorization # NULL
  /\ StartsWith(authorization, "Bearer ")
  /\ SubSeq(authorization, Len("Bearer ") + 1, Len(authorization)) = WEBHOOK_AUTH_KEY

\* middleware.ts:14-57 run by one request alone
rateLimit(entry, path, t) ==
  LET opt == RateLimitOptions(path)
      existing == IF entry.count > 0 /\ t < entry.expireAt
                    THEN [count |-> entry.count, resetAt |-> entry.resetAt]
                    ELSE NoExisting
  IN  IF opt = NoLimit
        THEN [entry |-> entry, status |-> 0]
      ELSE IF InWindow(existing, t)
        THEN IF existing.count >= opt.max
               THEN [entry |-> entry, status |-> 429]
               ELSE [entry |-> [count |-> existing.count + 1,
                                resetAt |-> existing.resetAt,
                                expireAt |-> t + 1000 * ttl(existing.resetAt - t)],
                     status |-> 0]
      ELSE [entry |-> [count |-> 1, resetAt |-> t + opt.windowMs,
                       expireAt |-> t + 1000 * ttl(opt.windowMs)],
            status |-> 0]

\* index.ts:601-629
OAuthCallbackRun(kv, code) ==
  IF ~Truthy(code)
    THEN [kv |-> kv, status |-> 400,
          message |-> "No OAuth2 code found in request"]
    ELSE [kv |-> KVPut(kv, "auth_code", code), status |-> 200,
          message |-> "Google OAuth2 code stored. You can close this tab."]

\* the handler of the route
HandlerRun(kv, path, access_token, res, code) ==
  IF path = "/oauth/callback"
    THEN OAuthCallbackRun(kv, code)
    ELSE LET r == StartPageTokenRun(kv, access_token, res)
         IN  [kv |-> r.kv, status |-> r.status, message |-> r.message]

\* cacheControl of index.ts:71, in ms
MaxAgeMs(path) == IF path = "/health" THEN 5 * 1000 ELSE 600 * 1000

\* cache.match(c.req.url): the responses stored for the URL and still fresh
Fresh(path) == {e \in cache : e.url = path /\ now < e.expireAt}

\* index.ts:39-77 and the handler.  The cache middleware answers with a
\* stored response of the URL when the Cache API has one, without calling
\* next; otherwise it calls next and stores the response when it is ok.
\* The Cache API may drop an entry at any time and is absent on some
\* deployments, so a stored response may or may not be found.
GatedRun(path, authorization, hit, access_token, res, code) ==
  LET limited == rateLimit(ratelimit, path, now)
      handled == HandlerRun(drive_kv, path, access_token, res, code)
      Blocked(status, message) ==
        [entry |-> limited.entry, kv |-> drive_kv, cache |-> cache,
         status |-> status, message |-> message, handled |-> FALSE,
         replayed |-> FALSE]
      Handled(stored) ==
        [entry |-> limited.entry, kv |-> handled.kv,
         cache |-> IF stored /\ handled.status = 200
                     THEN cache \cup {[url |-> path, status |-> handled.status,
                                       message |-> handled.message,
                                       expireAt |-> now + MaxAgeMs(path)]}
                     ELSE cache,
         status |-> handled.status, message |-> handled.message,
         handled |-> TRUE, replayed |-> FALSE]
  IN  IF limited.status = 429
        THEN {Blocked(429, "Too many requests")}
      ELSE IF path \in ExceptPaths
        THEN {Handled(FALSE)}
      ELSE IF hit
        THEN {[Blocked(e.status, e.message) EXCEPT !.replayed = TRUE] :
                e \in Fresh(path)}
      ELSE IF ~bearerAuth(authorization)
        THEN {Blocked(401, "Unauthorized")}
      ELSE {Handled(TRUE)}

Gated ==
  \E path \in RequestPaths, authorization \in Authorizations, hit \in BOOLEAN,
     access_token \in {"", "body_at"}, res \in StartPageTokenResponses,
     code \in {"", "code1"} :
    \E r \in GatedRun(path, authorization, hit, access_token, res, code) :
      /\ ops < MaxGated
      /\ ops' = ops + 1
      /\ (r.handled /\ path # "/oauth/callback" /\ Truthy(res.startPageToken))
           => cursor < MaxCursor
      /\ ratelimit' = r.entry
      /\ drive_kv' = r.kv
      /\ cache' = r.cache
      /\ cursor' = IF r.handled /\ path # "/oauth/callback" /\ r.status = 200
                     THEN cursor + 1 ELSE cursor
      /\ last' = [op |-> "request", path |-> path,
                  authorization |-> authorization, status |-> r.status,
                  message |-> r.message, handled |-> r.handled,
                  replayed |-> r.replayed, wrote |-> r.kv # drive_kv]
      /\ UNCHANGED <<lockExpireAt, now, call, refreshCalls, issued, recorded,
                     ENVIRONMENT, request, uuids, channels, run>>

\* the counter of a client that has used up its window
Exhausted ==
  LET opt == RateLimitOptions(ClientRoute)
  IN  [count |-> opt.max, resetAt |-> InitNow + opt.windowMs,
       expireAt |-> InitNow + 1000 * ttl(opt.windowMs)]

InitGated ==
  /\ now = InitNow
  /\ lockExpireAt = NoNum
  /\ call = [c \in Callers |-> NewCall]
  /\ refreshCalls = 0
  /\ issued = 0
  /\ ENVIRONMENT = "production"
  /\ ratelimit \in {NoEntry, Exhausted}
  /\ request = [r \in Requests |-> NoRequest]
  /\ cache = {}
  /\ drive_kv \in {EmptyKV, Subscribed}
  /\ recorded = IF Truthy(drive_kv["accessToken"])
                  THEN [t \in {drive_kv["accessToken"]} |->
                          drive_kv["accessTokenExpiry"]]
                  ELSE [t \in {} |-> 0]
  /\ uuids = 0
  /\ cursor = 0
  /\ channels = {}
  /\ last = [op |-> "none"]
  /\ ops = 0
  /\ run = [p \in Runs |-> Idle]

NextGated == Gated

SpecGated == InitGated /\ [][NextGated]_vars

(***************************************************************************)
(* Overlapping invocations.  The scheduled handler and the fetch handlers  *)
(* run as separate invocations of the worker: a renewal can be in flight   *)
(* while another renewal or a POST /drive/watch is.  Each invocation reads *)
(* the namespace and calls the provider, and then persists the channel     *)
(* fields with a Promise.all of independent puts (helper.ts:163-167,       *)
(* index.ts:308-313), which reach the namespace one at a time and in any   *)
(* order.                                                                  *)
(***************************************************************************)
\* a subscribed namespace whose channel is due for renewal and whose access
\* token is still good
DueStore ==
  [Subscribed EXCEPT !["driveChannelExpiration"] = InitNow + RENEW_THRESHOLD_MS]

RenewPuts == {"driveChannelId", "driveResourceId", "driveChannelExpiration"}

\* helper.ts:82-161 of a renewal whose provider calls go through: the reads,
\* the stop call and the subscribe call; the three puts are left in flight
BeginRenew(p) ==
  \E refresh \in RefreshResponses, stop \in {"ok", "rejected"},
     resourceId \in ResourceIds :
    /\ run[p].pc = "idle"
    /\ uuids + 1 <= MaxUUIDs
    /\ refresh.ok => issued < MaxIssued
    /\ LET r == RenewRun(drive_kv, refresh, stop, TRUE, resourceId)
       IN  /\ r.outcome = "renewed"
           /\ drive_kv' = r.g.kv
           /\ TokenGhosts(r.g, refresh)
           /\ uuids' = uuids + r.uuids
           /\ channels' = channels \cup
                            {[id |-> r.sent.id, address |-> r.sent.address,
                              token |-> r.sent.token]}
           /\ run' = [run EXCEPT ![p] =
                        [pc |-> "persist", kind |-> "renew", todo |-> RenewPuts,
                         writes |-> ChannelFields(r.kv),
                         registered |->
                           [driveChannelId |-> r.sent.id,
                            driveResourceId |-> resourceId,
                            driveChannelExpiration |-> r.sent.expiration,
                            driveWebhookToken |-> r.sent.token]]]
    /\ UNCHANGED <<lockExpireAt, now, call, ENVIRONMENT, ratelimit, request, cache, cursor, last, ops>>

\* index.ts:221-306 of a create_watch that is answered 200: validation, the
\* get-or-update writes and the subscribe call; the four puts are left in
\* flight
BeginWatch(p) ==
  \E body \in WatchBodies, refresh \in RefreshResponses,
     resourceId \in ResourceIds :
    /\ run[p].pc = "idle"
    /\ uuids + 2 <= MaxUUIDs
    /\ refresh.ok => issued < MaxIssued
    /\ LET r == WatchRun(drive_kv, body, refresh, TRUE, resourceId, NULL)
       IN  /\ r.status = 200
           /\ drive_kv' = r.g.kv
           /\ TokenGhosts(r.g, refresh)
           /\ uuids' = uuids + r.uuids
           /\ channels' = channels \cup
                            {[id |-> r.channel.driveChannelId,
                              address |-> r.kv["worker_drive_webhook_url"],
                              token |-> r.channel.driveWebhookToken]}
           /\ run' = [run EXCEPT ![p] =
                        [pc |-> "persist", kind |-> "watch", todo |-> ChannelKeys,
                         writes |-> r.channel, registered |-> r.channel]]
    /\ UNCHANGED <<lockExpireAt, now, call, ENVIRONMENT, ratelimit, request, cache, cursor, last, ops>>

\* one put of the Promise.all of invocation p reaches the namespace
PutField(p) ==
  \E k \in run[p].todo :
    /\ run[p].pc = "persist"
    /\ drive_kv' = KVPut(drive_kv, k, run[p].writes[k])
    /\ run' = [run EXCEPT ![p].todo = @ \ {k},
                          ![p].pc = IF run[p].todo = {k} THEN "done" ELSE @]
    /\ UNCHANGED <<lockExpireAt, now, call, refreshCalls, issued, recorded,
                   ENVIRONMENT, ratelimit, request, cache, uuids, cursor, channels, last, ops>>

InitOverlap ==
  /\ now = InitNow
  /\ lockExpireAt = NoNum
  /\ call = [c \in Callers |-> NewCall]
  /\ refreshCalls = 0
  /\ issued = 0
  /\ ENVIRONMENT = "production"
  /\ ratelimit = NoEntry
  /\ request = [r \in Requests |-> NoRequest]
  /\ cache = {}
  /\ drive_kv = DueStore
  /\ recorded = [t \in {drive_kv["accessToken"]} |-> drive_kv["accessTokenExpiry"]]
  /\ uuids = 0
  /\ cursor = 0
  /\ channels = {}
  /\ last = [op |-> "none"]
  /\ ops = 0
  /\ run = [p \in Runs |-> Idle]

NextOverlap ==
  \/ \E p \in Runs : BeginRenew(p)
  \/ \E p \in Runs : BeginWatch(p)
  \/ \E p \in Runs : PutField(p)

SpecOverlap == InitOverlap /\ [][NextOverlap]_vars

(***************************************************************************)
(* The scheduled handler (scheduled.ts:17-21) run after run, from a        *)
(* namespace whose channel is already due for renewal.                     *)
(***************************************************************************)
\* the namespaces of RenewStores at the moment their channel falls due
DueStores ==
  { [kv EXCEPT !["driveChannelExpiration"] = InitNow + RENEW_THRESHOLD_MS] :
      kv \in RenewStores }

InitSchedule ==
  /\ now = InitNow
  /\ lockExpireAt = NoNum
  /\ call = [c \in Callers |-> NewCall]
  /\ refreshCalls = 0
  /\ issued = 0
  /\ ENVIRONMENT = "production"
  /\ ratelimit = NoEntry
  /\ request = [r \in Requests |-> NoRequest]
  /\ cache = {}
  /\ drive_kv \in DueStores
  /\ recorded = [t \in {drive_kv["accessToken"]} |-> drive_kv["accessTokenExpiry"]]
  /\ uuids = 0
  /\ cursor = 0
  /\ channels = {}
  /\ last = [op |-> "none"]
  /\ ops = 0
  /\ run = [p \in Runs |-> Idle]

NextSchedule ==
  \/ Renew
  \/ Advance

SpecSchedule == InitSchedule /\ [][NextSchedule]_vars

(***************************************************************************)
(* Token manager: claims C1 - C3                                           *)
(***************************************************************************)
AllResolved == \A c \in Callers : call[c].pc = "done"
AllReturned == \A c \in Callers : call[c].outcome = "returned"

\* the stored token was not valid when the callers started
StartedExpired ==
  /\ MissingCredential(drive_kv) = NULL
  /\ "at0" \in DOMAIN recorded
  /\ recorded["at0"] - EARLY_REFRESH_MS <= InitNow

\* C1: at the moment a getValidAccessToken call returns a token, the expiry
\* recorded in the store for that token is greater than now + EARLY_REFRESH_MS.
C1_ReturnedTokenNotExpiring ==
  \A c \in Callers :
    call[c].outcome = "returned" =>
      RecordedExpiry(call[c].result) > call[c].returnedAt + EARLY_REFRESH_MS

PageTokenKeys == {"drive_start_page_token", "google_drive_start_page_token"}

\* C4: in every reachable state the stored accessTokenExpiry is the expiry
\* of the access token stored under accessToken, whichever operation wrote
\* the token.
C4_ExpiryReflectsStoredToken ==
  Truthy(drive_kv["accessToken"]) =>
    /\ drive_kv["accessToken"] \in DOMAIN recorded
    /\ drive_kv["accessTokenExpiry"] = recorded[drive_kv["accessToken"]]

C6_SyncAcknowledgedWithoutWrites ==
  [][( /\ ops' # ops
       /\ last'.op = "webhook"
       /\ last'.resourceState = "sync" )
     => /\ \A k \in PageTokenKeys \cup {"drive_folder_id", "accessToken",
                                        "accessTokenExpiry"} :
             drive_kv'[k] = drive_kv[k]
        /\ last'.status = 200
        /\ Contains(last'.message, "Sync")
        /\ last'.state = "sync"
        /\ last'.fetch = "none"]_vars

C6_Witness ==
  /\ last.op = "webhook"
  /\ last.resourceState = "sync"
  /\ last.receivedToken = "invalid_token"
  /\ last.status = 200
  /\ Truthy(drive_kv["driveWebhookToken"])

\* C7: after a change fetch that succeeds and returns successor cursor T2
\* the stored page token is T2; after a change fetch that fails the stored
\* page token is still the T1 the fetch was made with.
C7_PageTokenAdvances ==
  last.op = "webhook" =>
    /\ (last.fetch = "ok" /\ Truthy(last.newStartPageToken))
         => drive_kv["drive_start_page_token"] = last.newStartPageToken
    /\ last.fetch = "failed"
         => drive_kv["drive_start_page_token"] = last.pageToken

\* C8 as stated: the stored page token is created by the startPageToken
\* initialiser and afterwards replaced only by the successor cursor of a
\* successful change fetch.
C8_OnlyFetchOverwrites ==
  [][drive_kv'["drive_start_page_token"] # drive_kv["drive_start_page_token"]
       => IF drive_kv["drive_start_page_token"] = NULL
            THEN last'.op = "startPageToken"
            ELSE /\ last'.op = "webhook"
                 /\ last'.fetch = "ok"
                 /\ drive_kv'["drive_start_page_token"] = last'.newStartPageToken]_vars

\* C8, amended: a stored page token changes only when the startPageToken
\* initialiser stores the provider's start token, when a successful change
\* fetch stores the provider's successor cursor, or when the webhook,
\* create_watch or download handler stores the page token carried in its
\* request body; the renewal never writes a page token.
C8_PageTokenWriters ==
  [][\A k \in PageTokenKeys :
       drive_kv'[k] # drive_kv[k]
       => \/ /\ last'.op = "startPageToken"
             /\ last'.status = 200
             /\ drive_kv'[k] = last'.drive_start_page_token
             /\ drive_kv'[k] = PageTokenName(cursor')
          \/ /\ last'.op = "webhook"
             /\ last'.fetch = "ok"
             /\ drive_kv'[k] = last'.newStartPageToken
             /\ drive_kv'[k] = PageTokenName(cursor')
          \/ /\ last'.op \in {"webhook", "watch", "download"}
             /\ drive_kv'[k] \in BodyPageTokens \ {NULL}]_vars

C8_Witness ==
  /\ last.op = "renew"
  /\ last.outcome = "renewed"
  /\ drive_kv["drive_start_page_token"] = "ptA"
  /\ drive_kv["google_drive_start_page_token"] = "ptB"

\* C9: create_watch with an http webhook URL in a non-development
\* environment is answered 400 with a message containing "Insecure" and
\* sends no subscribe call; with an https URL it is not rejected as insecure.
C9_InsecureUrlRejected ==
  [][\A body \in WatchBodies, refresh \in RefreshResponses,
        subscribeOk \in BOOLEAN, resourceId \in ResourceIds,
        failed \in ChannelKeys \cup {NULL} :
       ( /\ WatchStep(body, refresh, subscribeOk, resourceId, failed)
         /\ ENVIRONMENT # "development" )
       => /\ StartsWith(body.worker_drive_webhook_url, "http://")
               => /\ last'.status = 400
                  /\ Contains(last'.message, "Insecure")
                  /\ ~last'.subscribe
          /\ StartsWith(body.worker_drive_webhook_url, "https://")
               => ~Contains(last'.message, "Insecure")]_vars

\* C10: when a create_watch call has ended, the four stored channel fields
\* either all describe the channel the call created or all still hold what
\* they held before the call.
C10_ChannelFieldsAllOrNothing ==
  last.op = "watch" =>
    \/ ChannelFields(drive_kv) = last.channel
    \/ ChannelFields(drive_kv) = last.previous

(***************************************************************************)
(* Renewal: claims C11 - C16 (specification SpecRenew)                     *)
(***************************************************************************)
RenewStep == ops' # ops /\ last'.op = "renew"

\* C11: from the namespace the documented setup leaves (OAuth exchange,
\* startPageToken initialisation, successful create_watch), a renewal that
\* is due and whose provider calls all succeed registers a new channel and
\* leaves a stored channel expiration greater than now + 1 h.
C11_DueRenewalRenews ==
  [][( /\ RenewStep
       /\ drive_kv = SetUp
       /\ RenewalDue(drive_kv)
       /\ ~last'.failure )
     => /\ last'.outcome = "renewed"
        /\ last'.subscribe
        /\ channels' # channels
        /\ drive_kv'["driveChannelExpiration"] > now + RENEW_THRESHOLD_MS]_vars

\* C12: the channel id renewal sends in the subscribe call is the newly
\* generated one and is the id it then stores under driveChannelId; the old
\* channel id goes only into the stop call.
C12_SubscribeUsesNewChannelId ==
  (last.op = "renew" /\ last.subscribe) =>
    /\ last.sent.id = last.newChannelId
    /\ last.sent.id # last.previous["driveChannelId"]
    /\ last.stopped = last.previous["driveChannelId"]
    /\ last.outcome = "renewed" => drive_kv["driveChannelId"] = last.sent.id

\* C13: a successful renewal registers a newly generated validation token
\* with the provider and stores it under driveWebhookToken, so the stored
\* token is no longer the one of the previous channel.
C13_RenewalStoresNewToken ==
  (last.op = "renew" /\ last.outcome = "renewed") =>
    /\ last.sent.token # last.previous["driveWebhookToken"]
    /\ drive_kv["driveWebhookToken"] = last.sent.token
    /\ drive_kv["driveWebhookToken"] # last.previous["driveWebhookToken"]

\* C14: a due renewal that finds the channel id, the resource id, the page
\* token, the webhook url, the validation token or the access token missing
\* sends neither the stop call nor the subscribe call and leaves the stored
\* channel fields as they were.
C14_MissingMetadataAborts ==
  [][( /\ RenewStep
       /\ RenewalDue(drive_kv)
       /\ \/ \E k \in MetadataKeys : ~Truthy(drive_kv[k])
          \/ last'.outcome = "token error" )
     => /\ last'.stop = "none"
        /\ ~last'.subscribe
        /\ channels' = channels
        /\ ChannelFields(drive_kv') = ChannelFields(drive_kv)]_vars

\* C15: when the stop call for the old channel fails (non-success response
\* or rejected fetch), with the channel metadata complete, the subscribe
\* call for the new channel is still issued.
C15_StopFailureDoesNotBlock ==
  ( /\ last.op = "renew"
    /\ last.stop \in {"rejected", "throws"}
    /\ Truthy(last.previous["driveWebhookToken"]) )
  => last.subscribe

\* C16: a renewal invoked while the stored expiration - now > 1 h makes no
\* provider call, triggers no token refresh and changes no key of the store.
C16_NotDueIsNoOp ==
  [][( /\ RenewStep
       /\ TruthyNum(drive_kv["driveChannelExpiration"])
       /\ drive_kv["driveChannelExpiration"] - now > RENEW_THRESHOLD_MS )
     => /\ drive_kv' = drive_kv
        /\ last'.outcome = "still valid"
        /\ last'.stop = "none"
        /\ ~last'.subscribe
        /\ ~last'.refresh
        /\ refreshCalls' = refreshCalls
        /\ channels' = channels
        /\ uuids' = uuids
        /\ lockExpireAt' = lockExpireAt]_vars

C16_Witness ==
  /\ last.op = "renew"
  /\ last.outcome = "still valid"
  /\ ops = 1
  /\ drive_kv = Expiring
  /\ ~TokenStillValid(drive_kv["accessToken"],
                      Number(drive_kv["accessTokenExpiry"]), now)
  /\ \A k \in MetadataKeys : Truthy(drive_kv[k])

(***************************************************************************)
(* Overlapping renewals: claim C17 (specification SpecOverlap)             *)
(***************************************************************************)
BothDone == \A p \in Runs : run[p].pc = "done"

\* C17: when two overlapping invocations, one of them a renewal and the
\* other a renewal or a create_watch, have both succeeded and finished, the
\* stored channel id, resource id, expiration and validation token are the
\* ones of a single channel that one of them registered with the provider.
C17_OverlapStoresOneChannel ==
  (BothDone /\ \E p \in Runs : run[p].kind = "renew")
    => \E p \in Runs : ChannelFields(drive_kv) = run[p].registered

(***************************************************************************)
(* Abandoned lock holder: claim C18 (specification SpecAbandon)            *)
(***************************************************************************)
\* caller a wrote the lock entry that is in the store and was abandoned
AbandonedLock(a) ==
  /\ call[a].pc = "abandoned"
  /\ drive_kv[LOCK_KEY] = call[a].now

\* C18: after a caller wrote the refresh lock and was abandoned, a caller
\* whose now - lock timestamp >= LOCK_TTL (30 s) does not wait: it treats
\* the lock as expired, writes its own lock and goes on to refresh.
C18_AbandonedLockExpires ==
  [][\A a, c \in Callers :
       ( /\ AbandonedLock(a)
         /\ call[c].pc = "get_lock"
         /\ call'[c].pc # "get_lock"
         /\ call[c].now - call[a].now >= LOCK_TTL_MS )
       => call'[c].pc = "put_lock"]_vars

\* a caller that read the clock after the holder was abandoned found the
\* abandoned lock entry still stored, 30 s old, and went on to the token
\* endpoint
C18_Witness ==
  \E a, c \in Callers :
    /\ call[a].pc = "abandoned"
    /\ call[a].returnedAt < call[c].now
    /\ call[c].acquired
    /\ call[c].lockTimestamp = call[a].now
    /\ call[c].now - call[a].now >= LOCK_TTL_MS
    /\ call[c].pc \in {"fetch", "put_token", "put_expiry", "finally", "done"}

(***************************************************************************)
(* Waiting on the lock: claim C19 (specification SpecToken)                *)
(***************************************************************************)
\* caller w found the lock held, slept and tried again
Waited(w) == call[w].retries >= 1

\* another caller held the lock, and every caller that held it returned its
\* refreshed token
HoldersSucceeded(w) ==
  /\ \E h \in Callers \ {w} : call[h].acquired
  /\ \A h \in Callers \ {w} : call[h].acquired => call[h].outcome = "returned"

\* C19: a caller that found the lock held gets no error from the contention:
\* when the holder's refresh succeeded, the waiter returns a token whose
\* recorded expiry is beyond the early-refresh margin, and it has not called
\* the token endpoint itself.
C19_WaiterReturnsWithoutRefresh ==
  \A w \in Callers :
    (Waited(w) /\ call[w].pc = "done" /\ HoldersSucceeded(w))
      => /\ call[w].outcome = "returned"
         /\ ~call[w].acquired
         /\ RecordedExpiry(call[w].result) - EARLY_REFRESH_MS > call[w].returnedAt

(***************************************************************************)
(* Refresh failure: claim C20 (specification SpecToken)                    *)
(***************************************************************************)
RefreshErrors == {"No refresh token available", "No client ID available",
                  "No client secret available", "Failed to refresh access token"}

\* C20: when the refresh of a call fails (refresh token, client id or client
\* secret missing, or a non-success answer of the token endpoint), every
\* further step of that call leaves the stored access token and expiry as
\* they are and sends nothing more to the token endpoint, and the call ends
\* by throwing.
C20_RefreshFailureIsFatal ==
  [][\A c \in Callers :
       (call'[c] # call[c] /\ (call[c].error # NULL \/ call'[c].error # NULL))
       => /\ call'[c].error \in RefreshErrors
          /\ drive_kv'["accessToken"] = drive_kv["accessToken"]
          /\ drive_kv'["accessTokenExpiry"] = drive_kv["accessTokenExpiry"]
          /\ call[c].error # NULL => refreshCalls' = refreshCalls
          /\ call'[c].pc \in {"finally", "done"}
          /\ call'[c].pc = "done" => call'[c].outcome = "threw"]_vars

\* a call whose refresh the token endpoint refused has thrown, and the store
\* still holds the token and the expiry it started with
C20_Witness ==
  \E c \in Callers :
    /\ call[c].outcome = "threw"
    /\ call[c].error = "Failed to refresh access token"
    /\ drive_kv["accessToken"] = "at0"
    /\ drive_kv["accessTokenExpiry"] = InitNow + LOCK_TTL_MS

(***************************************************************************)
(* Webhook processing: claims C21 - C23 (specification SpecWebhook)        *)
(***************************************************************************)
\* the value the resolution rule picks for key: the one of the payload when
\* there is one, the stored one otherwise
Chosen(key, value) == IF Truthy(value) THEN value ELSE drive_kv[key]

\* C21: a notification that reaches processing (not a sync, validation token
\* accepted) uses for folder id, access token and page token the value of
\* the request body when there is one and the stored value otherwise, and
\* stores the value it uses; when one of the three is then still missing it
\* answers 400 and does not call the change fetcher, otherwise it calls the
\* change fetcher with the page token it resolved.
C21_ResolveConfiguration ==
  [][( /\ ops' # ops
       /\ last'.op = "webhook"
       /\ ~IsSync(last'.resourceState)
       /\ validateDriveWebhook(drive_kv["driveWebhookToken"], last'.receivedToken) )
     => LET body   == last'.body
            folder == Chosen("drive_folder_id", body.drive_folder_id)
            page   == Chosen("drive_start_page_token", body.drive_start_page_token)
            token  == Chosen("accessToken", body.access_token)
        IN  /\ drive_kv'["drive_folder_id"] = folder
            /\ drive_kv'["drive_start_page_token"] = page
            /\ drive_kv'["accessToken"] = token
            /\ IF Truthy(folder) /\ Truthy(page) /\ Truthy(token)
                 THEN /\ last'.fetch # "none"
                      /\ last'.pageToken = page
                 ELSE /\ last'.status = 400
                      /\ last'.message = "Missing required Drive configuration"
                      /\ last'.fetch = "none"
                      /\ cursor' = cursor]_vars

\* a notification without access token and folder id in its body was
\* processed with the stored ones and with the page token of its body, which
\* is now stored
C21_Witness ==
  /\ last.op = "webhook"
  /\ last.fetch = "ok"
  /\ last.pageToken = "body_pt"
  /\ last.body.access_token = NULL
  /\ last.body.drive_folder_id = ""
  /\ drive_kv["drive_start_page_token"] = "body_pt"
  /\ drive_kv["accessToken"] = "at0"
  /\ drive_kv["drive_folder_id"] = "folderA"
  /\ ops = 1

\* C22: a change fetch that succeeds and whose response carries a successor
\* page token stores that token, whether or not a returned change lies in
\* the tracked folder, and returns the whole change set of the response.
C22_FetchAdvancesAndReturnsAll ==
  [][( /\ ops' # ops
       /\ last'.op = "webhook"
       /\ last'.fetch = "ok" )
     => /\ Truthy(last'.response.newStartPageToken)
             => drive_kv'["google_drive_start_page_token"] =
                  last'.response.newStartPageToken
        /\ last'.result.changes = last'.response.changes
        /\ last'.result.newStartPageToken = last'.response.newStartPageToken]_vars

\* the fetch returned a file outside the tracked folder and none inside it,
\* and the successor token is stored
C22_Witness ==
  /\ last.op = "webhook"
  /\ last.fetch = "ok"
  /\ last.logged = {}
  /\ last.result.changes = <<OutsideFile>>
  /\ Truthy(last.newStartPageToken)
  /\ drive_kv["google_drive_start_page_token"] = last.newStartPageToken
  /\ drive_kv["drive_folder_id"] = "folderA"

\* C23: a notification whose change fetch gets a non-success response from
\* the Drive API is answered 500, not as a processed change.
C23_FetchFailureIsReported ==
  (last.op = "webhook" /\ last.fetch = "failed")
    => /\ last.status = 500
       /\ last.message # "Change processed"

\* C24: a startPageToken initialisation whose provider call succeeds with a
\* token answers 200 with a message containing "initialized" and that
\* token, and the store holds exactly that token under the page-token key;
\* when the provider call fails or returns no token the key is unchanged.
C24_InitialisationStoresProviderToken ==
  [][( /\ ops' # ops
       /\ last'.op = "startPageToken" )
     => LET res == last'.response
        IN  IF last'.status = 200
              THEN /\ res.ok
                   /\ Truthy(res.startPageToken)
                   /\ Contains(last'.message, "initialized")
                   /\ last'.drive_start_page_token = res.startPageToken
                   /\ drive_kv'["drive_start_page_token"] = res.startPageToken
              ELSE /\ drive_kv'["drive_start_page_token"]
                        = drive_kv["drive_start_page_token"]
                   /\ (res.ok /\ Truthy(res.startPageToken))
                        => ~Truthy(drive_kv'["accessToken"])]_vars

C24_Witness ==
  /\ last.op = "startPageToken"
  /\ last.status = 200
  /\ last.response.startPageToken = PageTokenName(cursor)
  /\ drive_kv["drive_start_page_token"] = PageTokenName(cursor)
  /\ drive_kv["google_drive_start_page_token"] = "ptB"

(***************************************************************************)
(* Rate limiting: claim C25 (specification SpecRate)                       *)
(***************************************************************************)
\* the requests rateLimit passed on to the route and counted in window w
PassedIn(w) == {r \in Requests : request[r].pc = "next" /\ request[r].window = w}

\* C25: of the requests of one client to one /drive/ route, at most max
\* (5) are passed on within one window, whatever the interleaving of the
\* requests.
C25_AtMostMaxPerWindow ==
  \A r \in Requests :
    request[r].pc = "next"
      => Cardinality(PassedIn(request[r].window))
           <= RateLimitOptions(ClientRoute).max

(***************************************************************************)
(* Bearer authentication: claim C26 (specification SpecGated)              *)
(***************************************************************************)
\* C26: a request to a route other than /, /health, /oauth/callback and
\* /drive/webhook that carries no bearer token, or a bearer token that is
\* not WEBHOOK_AUTH_KEY, is answered 401; its handler does not run and the
\* store is not written.
C26_ProtectedRoutesRequireBearer ==
  ( /\ last.op = "request"
    /\ last.path \notin ExceptPaths
    /\ ~bearerAuth(last.authorization) )
  => /\ last.status = 401
     /\ ~last.handled
     /\ ~last.wrote

(***************************************************************************)
(* Overlapping refreshes: claim C27 (specification SpecTimed)              *)
(***************************************************************************)
\* every caller wrote the lock, refreshed successfully and returned
AllRefreshed ==
  \A c \in Callers : call[c].outcome = "returned" /\ call[c].acquired

\* C27: after two overlapping refreshes have both succeeded and both
\* callers have finished, the stored expiry is the expiry written for the
\* stored access token (both come from the same response).
C27_LaterWriteWinsAsAWhole ==
  AllRefreshed
    => drive_kv["accessTokenExpiry"] = RecordedExpiry(drive_kv["accessToken"])

(***************************************************************************)
(* The refresh lock: claims C28 - C30 (specifications SpecToken, SpecTimed) *)
(***************************************************************************)
\* the lock timestamp read by c is present and younger than LOCK_TTL_MS
\* at the moment c compares it
ReadYoungLock(c, lockTimestamp) ==
  /\ lockTimestamp # NoNum
  /\ lockTimestamp # 0
  /\ call[c].now - lockTimestamp < LOCK_TTL_MS

\* C28: an attempt that reads a lock timestamp younger than LOCK_TTL sends
\* nothing to the token endpoint and neither writes nor deletes the lock;
\* it sleeps the backoff interval and then starts again at the read of the
\* stored token.
C28_YoungLockMeansWait ==
  [][\A c \in Callers :
       /\ ( /\ call[c].pc = "get_lock"
            /\ call'[c].pc # "get_lock"
            /\ ReadYoungLock(c, call'[c].lockTimestamp) )
          => /\ call'[c].pc = "sleep"
             /\ call'[c].wakeAt = now + SLEEP_MS
             /\ call'[c].acquired = call[c].acquired
             /\ UNCHANGED <<drive_kv, lockExpireAt, refreshCalls>>
       /\ ( /\ call[c].pc = "sleep"
            /\ call'[c] # call[c] )
          => /\ call'[c].pc = "start"
             /\ call'[c].retries = call[c].retries + 1
             /\ now' >= call[c].wakeAt
             /\ UNCHANGED <<drive_kv, lockExpireAt, refreshCalls>>]_vars

C28_Witness ==
  \E c \in Callers :
    /\ call[c].pc = "get_expiry"
    /\ call[c].retries = 1
    /\ ReadYoungLock(c, call[c].lockTimestamp)
    /\ ~call[c].acquired
    /\ KVGet(drive_kv, LOCK_KEY) = call[c].lockTimestamp
    /\ now = InitNow + SLEEP_MS

\* the stored lock entry was written by d, a caller other than c whose
\* refresh is in flight: the entry is the timestamp d wrote, and not the one
\* c wrote
HoldsLockOf(d, c) ==
  /\ d # c
  /\ call[d].pc \in LockOwned
  /\ call[d].acquired
  /\ KVGet(drive_kv, LOCK_KEY) = call[d].now
  /\ call[d].now # call[c].now

\* C30: a caller that finishes its refresh does not delete a lock entry
\* written by another caller whose refresh is still in flight.
C30_ReleaseOnlyOwnLock ==
  [][\A c \in Callers :
       ( /\ call[c].pc = "finally"
         /\ call'[c].pc = "done"
         /\ \E d \in Callers : HoldsLockOf(d, c) )
       => KVGet(drive_kv, LOCK_KEY)' = KVGet(drive_kv, LOCK_KEY)]_vars

\* C29: the wait-and-retry rounds of a call are bounded by the expiry of the
\* lock it waits on, also when other callers keep acquiring and releasing
\* the lock: a call does not go to sleep again once the lock entry it first
\* waited on has reached LOCK_TTL.
C29_WaitBoundedByLockExpiry ==
  \A c \in Callers :
    call[c].pc = "sleep" => call[c].now < call[c].firstLock + LOCK_TTL_MS

(***************************************************************************)
(* Handlers and renewal: claims C31 - C35                                  *)
(***************************************************************************)
\* C31: a create_watch call rejected for an insecure webhook URL leaves the
\* store unchanged; the rejected URL is not stored under
\* worker_drive_webhook_url.
C31_InsecureRejectionWritesNothing ==
  [][( /\ ops' # ops
       /\ last'.op = "watch"
       /\ Contains(last'.message, "Insecure") )
     => drive_kv' = drive_kv]_vars

\* C32: after a successful create_watch or renewal the expiration stored
\* under driveChannelExpiration is the expiration sent to the provider in the
\* subscribe call, and it is the time of the call plus 24 h.
C32_StoredExpirationIsSentExpiration ==
  /\ (last.op = "renew" /\ last.outcome = "renewed")
       => /\ drive_kv["driveChannelExpiration"] = last.sent.expiration
          /\ drive_kv["driveChannelExpiration"] = now + EXPIRATION_MS
  /\ (last.op = "watch" /\ last.status = 200)
       => /\ drive_kv["driveChannelExpiration"] = last.channel.driveChannelExpiration
          /\ drive_kv["driveChannelExpiration"] = now + EXPIRATION_MS

\* C33: a renewal whose subscribe call the provider refuses leaves the four
\* channel fields unchanged, so that the renewal is still due; the next
\* scheduled run finds it due and attempts it again.
C33_RefusedRenewalIsRetried ==
  [][RenewStep =>
       /\ last'.outcome = "failed to renew"
            => /\ ChannelFields(drive_kv') = ChannelFields(drive_kv)
               /\ RenewalDue(drive_kv')
       /\ (last.op = "renew" /\ last.outcome = "failed to renew")
            => /\ last'.due
               /\ last'.outcome \notin {"still valid", "no channel"}]_vars

C33_Witness ==
  /\ last.op = "renew"
  /\ last.outcome = "failed to renew"
  /\ last.subscribe
  /\ ops = 2
  /\ ChannelFields(drive_kv) = last.previous
  /\ RenewalDue(drive_kv)
  /\ uuids = 2

C35_NextNotificationUsesSuccessor ==
  [][( /\ ops' # ops
       /\ last.op = "webhook"
       /\ last.fetch = "ok"
       /\ Truthy(last.newStartPageToken)
       /\ last'.op = "webhook"
       /\ last'.fetch # "none" )
     => \/ last'.pageToken = last.newStartPageToken
        \/ \E t \in BodyPageTokens : t # NULL /\ last'.pageToken = t]_vars


(***************************************************************************)
(* POST /oauth/exchange (index.ts:496-598), followed by later calls of     *)
(* getValidAccessToken: claims C36 and C37                                 *)
(***************************************************************************)
MaxExchangeOps == 3   \* exchanges, lapses and token calls of one behaviour

\* the json body after validation: every field is optional
ExchangeBodies ==
  [auth_code : {NULL, "code"}, client_id : {NULL, "id"},
   client_secret : {NULL, "secret"}]

\* what getAccessTokens resolves with (helper.ts:185-188): the provider's
\* tokens, any field of which may be absent, or a rejection
TokenLifetimeMs == 3600 * 1000
ExchangeResponses ==
  { [ok |-> FALSE, access_token |-> NULL, expiry_date |-> NoNum,
     refresh_token |-> NULL] } \cup
  { [ok |-> TRUE, access_token |-> a, expiry_date |-> x, refresh_token |-> r] :
      a \in {NULL, "at_ex"}, x \in {NoNum, now + TokenLifetimeMs},
      r \in {NULL, "rt_ex"} }

\* v ?? "" of index.ts:568-573; an expiry of "" reads back as Number("") = 0
OrEmpty(v) == IF v = NULL THEN "" ELSE v
OrEmptyNum(n) == IF n = NoNum THEN 0 ELSE n

\* index.ts:516-596.  The three getOrUpdateKV calls (520-536) store what the
\* body carries under client_id, client_secret and auth_code; the errors of
\* 543-549 are thrown outside the try and answered 500
OAuthExchangeRun(kv, bodyData, token) ==
  LET client_id     == getOrUpdateKV(kv, "client_id", bodyData.client_id)
      client_secret == getOrUpdateKV(client_id.kv, "client_secret",
                                     bodyData.client_secret)
      auth_code     == getOrUpdateKV(client_secret.kv, "auth_code",
                                     bodyData.auth_code)
      g == auth_code.kv
  IN  IF ~Truthy(auth_code.value)
        THEN [kv |-> g, status |-> 400, message |-> "Missing Google OAuth code"]
      ELSE IF ~Truthy(client_id.value)
        THEN [kv |-> g, status |-> 500, message |-> "No client ID available"]
      ELSE IF ~Truthy(client_secret.value)
        THEN [kv |-> g, status |-> 500, message |-> "No client secret available"]
      ELSE IF ~token.ok
        THEN [kv |-> g, status |-> 500, message |-> "Token exchange failed"]
      ELSE [kv |-> [g EXCEPT
                      !["accessToken"] = OrEmpty(token.access_token),
                      !["accessTokenExpiry"] = OrEmptyNum(token.expiry_date),
                      !["refreshToken"] = OrEmpty(token.refresh_token)],
            status |-> 200, message |-> "Token exchange successful"]

Exchange ==
  \E bodyData \in ExchangeBodies, token \in ExchangeResponses :
    /\ ops < MaxExchangeOps
    /\ ops' = ops + 1
    /\ LET r == OAuthExchangeRun(drive_kv, bodyData, token)
       IN  /\ drive_kv' = r.kv
           /\ last' = [op |-> "exchange", status |-> r.status,
                       message |-> r.message, bodyData |-> bodyData,
                       token |-> token, expired |-> FALSE, sent |-> FALSE,
                       error |-> NULL]
    /\ UNCHANGED <<lockExpireAt, now, call, run, refreshCalls, issued, recorded,
                   ENVIRONMENT, ratelimit, request, cache, uuids, cursor,
                   channels>>

\* the lifetime of an access token passes; no handler runs
Lapse ==
  /\ ops < MaxExchangeOps
  /\ ops' = ops + 1
  /\ now' = now + TokenLifetimeMs
  /\ UNCHANGED <<drive_kv, lockExpireAt, call, run, refreshCalls, issued,
                 recorded, ENVIRONMENT, ratelimit, request, cache, uuids, cursor,
                 channels, last>>

\* a handler calls getValidAccessToken (helper.ts:236-276) while no other
\* call is inside it
TokenCall ==
  \E refresh \in RefreshResponses :
    /\ ops < MaxExchangeOps
    /\ ops' = ops + 1
    /\ refresh.ok => issued < MaxIssued
    /\ LET g == getValidAccessToken(drive_kv, refresh)
       IN  /\ drive_kv' = g.kv
           /\ TokenGhosts(g, refresh)
           /\ last' = [op |-> "token", status |-> IF g.threw THEN 500 ELSE 200,
                       message |-> NULL, bodyData |-> last.bodyData,
                       token |-> last.token,
                       expired |-> ~TokenStillValid(
                                      KVGet(drive_kv, "accessToken"),
                                      Number(KVGet(drive_kv, "accessTokenExpiry")),
                                      now),
                       sent |-> g.sent,
                       error |-> IF g.threw /\ ~g.sent
                                   THEN MissingCredential(drive_kv) ELSE NULL]
    /\ UNCHANGED <<lockExpireAt, now, call, run, ENVIRONMENT, ratelimit, request,
                   cache, uuids, cursor, channels>>

\* a fresh deployment, and a worker that has been through an exchange before
ExchangeStores == {EmptyKV, Exchanged}

NoExchange ==
  [op |-> "none", status |-> 0, message |-> NULL,
   bodyData |-> [auth_code |-> NULL, client_id |-> NULL, client_secret |-> NULL],
   token |-> [ok |-> FALSE, access_token |-> NULL, expiry_date |-> NoNum,
              refresh_token |-> NULL],
   expired |-> FALSE, sent |-> FALSE, error |-> NULL]

InitExchange ==
  /\ now = InitNow
  /\ lockExpireAt = NoNum
  /\ call = [c \in Callers |-> NewCall]
  /\ refreshCalls = 0
  /\ issued = 0
  /\ ENVIRONMENT = "production"
  /\ ratelimit = NoEntry
  /\ request = [r \in Requests |-> NoRequest]
  /\ cache = {}
  /\ drive_kv \in ExchangeStores
  /\ recorded = IF Truthy(drive_kv["accessToken"])
                  THEN [t \in {drive_kv["accessToken"]} |->
                          drive_kv["accessTokenExpiry"]]
                  ELSE [t \in {} |-> 0]
  /\ uuids = 0
  /\ cursor = 0
  /\ channels = {}
  /\ last = NoExchange
  /\ ops = 0
  /\ run = [p \in Runs |-> Idle]

NextExchange ==
  \/ Exchange
  \/ Lapse
  \/ TokenCall

SpecExchange == InitExchange /\ [][NextExchange]_vars

\* C36: after an exchange that was given and stored the client id and secret
\* and returned a refresh token, the next getValidAccessToken call that finds
\* the access token expired reaches the token endpoint
C36_RefreshAfterExchangeReachesEndpoint ==
  [][( /\ ops' # ops
       /\ last.op = "exchange" /\ last.status = 200
       /\ Truthy(last.bodyData.client_id)
       /\ Truthy(last.bodyData.client_secret)
       /\ Truthy(last.token.refresh_token)
       /\ last'.op = "token" /\ last'.expired )
     => last'.sent /\ last'.error = NULL]_vars

\* C37: a successful exchange never replaces a stored non-empty refresh
\* token, access token or expiry with an empty value
C37_ExchangeKeepsStoredTokens ==
  [][( ops' # ops /\ last'.op = "exchange" /\ last'.status = 200 )
     => /\ Truthy(drive_kv["refreshToken"]) => Truthy(drive_kv'["refreshToken"])
        /\ Truthy(drive_kv["accessToken"]) => Truthy(drive_kv'["accessToken"])
        /\ TruthyNum(drive_kv["accessTokenExpiry"])
             => TruthyNum(drive_kv'["accessTokenExpiry"])]_vars


(***************************************************************************)
(* The rate limiter's windows: claim C38                                   *)
(***************************************************************************)
\* C38: a request answered 429 leaves the stored entry (counter and reset
\* time) as it was, and a request that arrives at or after the resetAt of the
\* entry it read is passed on and stores count 1 with resetAt = its own clock
\* reading + windowMs
C38_RejectionWritesNothingAndWindowRestarts ==
  [][\A r \in Requests :
       (request[r].pc = "read" /\ request'[r].pc # "read") =>
         /\ request'[r].pc = "429" => ratelimit' = ratelimit
         /\ ( request[r].existing # NoExisting
              /\ request[r].now >= request[r].existing.resetAt )
            => /\ request'[r].pc = "next"
               /\ ratelimit'.count = 1
               /\ ratelimit'.resetAt =
                    request[r].now + RateLimitOptions(ClientRoute).windowMs]_vars

\* one request was answered 429 and a later one, arriving at the resetAt of
\* the entry it read, opened the window the namespace now holds
C38_Witness ==
  \E r, n \in Requests :
    /\ request[r].pc = "429"
    /\ request[r].existing.count = RateLimitOptions(ClientRoute).max
    /\ request[n].pc = "next"
    /\ request[n].existing = request[r].existing
    /\ request[n].now >= request[n].existing.resetAt
    /\ ratelimit.count = 1
    /\ ratelimit.resetAt = request[n].now + RateLimitOptions(ClientRoute).windowMs

====
